---- MODULE Spec2Model ----
(***************************************************************************)
(* The Whetstone: the debate engine (symposium.py) and the background      *)
(* scheduler (scheduler_service.py) as state machines.                     *)
(***************************************************************************)
EXTENDS Integers, Sequences, FiniteSets, TLC

\* ------------------------------------------------------------------ bounds

\* Longest debate history explored.
MaxHistory == 4

\* Most calls made on one settings store: setters, settings endpoints, chats,
\* summaries and constructions of a new session.
MaxOps == 2

\* Most events the scheduler's environment produces: calls of start, stop,
\* add_task and remove_task, and minutes that pass.
MaxCalls == 5

\* Store calls that fail in one run.
MaxErrors == 1

\* Documents in the knowledge base.
MaxDocs == 4

\* Persona scan requests received.
MaxScans == 4

\* ------------------------------------------------------------- value sets

\* Python's None, also what dict.get() gives for an absent key.
None == "None"

\* Participant A, and the personas participant B is drawn from: a persona
\* with another name, and a different persona carrying the same display name
\* (personas.json is keyed by key, not by name, and a codex is keyed by its
\* name: core.py 171-228 never makes the "name" fields unique).
PersonaA == [name |-> "Plato", prompt |-> "p_plato"]

PersonasB == { [name |-> "Kant", prompt |-> "p_kant"],
               [name |-> "Plato", prompt |-> "p_plato_codex"] }

\* core.personas as _load_personas builds it, in dict order: the three above,
\* a legacy entry without a "prompt" key (prompt None), a placeholder entry
\* and an entry whose name is blank.
Library == << [key |-> "plato", persona |-> PersonaA],
             [key |-> "kant", persona |-> [name |-> "Kant", prompt |-> "p_kant"]],
             [key |-> "Plato", persona |-> [name |-> "Plato", prompt |-> "p_plato_codex"]],
             [key |-> "zeno", persona |-> [name |-> "Zeno", prompt |-> None]],
             [key |-> "Example", persona |-> [name |-> "Example", prompt |-> "p_example"]],
             [key |-> "blank", persona |-> [name |-> " ", prompt |-> "p_blank"]] >>

\* The persona dicts a session may have loaded: none, or the library.
Libraries == { <<>>, Library }

\* str.lower() and str.strip(), on the strings used here.
Lower(name) == IF name \in {"Random", "random"} THEN "random"
               ELSE IF name \in {"Example", "example"} THEN "example"
               ELSE name

Strip(name) == IF name \in {"", " "} THEN "" ELSE name

PlaceholderKeys == {"example", "test", "placeholder"}

\* get_valid_personas() without its filter: every entry of core.personas.
GetAllPersonas(ps) == [k \in 1..Len(ps) |-> ps[k].persona]

\* core.get_valid_personas(): the entries whose key is no placeholder and whose
\* name is not blank.
GetValidPersonas(ps) ==
    GetAllPersonas(SelectSeq(ps, LAMBDA e : /\ Lower(e.key) \notin PlaceholderKeys
                                           /\ Strip(e.persona.name) # ""))

\* What core.get_valid_personas() returns for the library, in dict order.
ValidPersonas == GetValidPersonas(Library)

\* add_task's inputs: the interval in minutes, the action and the persona
\* (any spelling of "random", a persona's name, a name nobody carries).
Intervals == {1, 2}

ActionTypes == {"toast"}

PersonaNames == {"Random", "Kant", "Nobody"}

Topic == "topic"

SessionId == "sid"

\* uuid4 draws for core.session_id.
SessionIds == {"sid", "sid2"}

\* chat()'s user_query.
Queries == {"q"}

\* interject()'s target argument: 'a', 'b', absent, or anything else.
Targets == {"a", "b", None, "c"}

\* Moderator messages, as character sequences like the generated texts.
Messages == { <<"m">> }

\* Fragments the backend may yield, and the streams it may produce: the
\* sequence of fragments of one generate(prompt, stream=True) call that ends
\* normally.  A stream may also raise after any prefix of one of these.
Tokens == {"x", "y"}

BackendStreams == { <<>>, <<"x">>, <<"x", "y">>, <<"y", "x">> }

IsPrefix(s, t) == Len(s) <= Len(t) /\ SubSeq(t, 1, Len(s)) = s

VARIABLES
    persona_a,        \* Symposium.persona_a
    persona_b,        \* Symposium.persona_b
    history,          \* Symposium.history
    turn_count,       \* Symposium.turn_count
    is_active,        \* Symposium.is_active
    gen,              \* the next_turn() generator in progress, if any
    suspended,        \* a next_turn() generator of another request, waiting at a yield
    spoke,            \* per history entry: which participant next_turn chose
    logging_enabled,  \* core.db.logging_enabled
    personas,         \* core.personas
    interactions,     \* rows of the interactions table
    db_errors,        \* errors DatabaseManager has caught and logged
    running,          \* SocraticScheduler.running
    thread,           \* SocraticScheduler.thread: index into threads, 0 for None
    threads,          \* every background thread start() created, with its position
    tasks,            \* SocraticScheduler.tasks
    jobs,             \* the schedule library's job list
    next_id,          \* the next fresh task id
    now,              \* the clock, in minutes
    calls,            \* environment events so far
    fg,               \* the foreground caller: its current or last call
    ui_calls,         \* how many calls the delivery callback has received
    removed,          \* ids whose remove_task call has returned
    stop_returned,    \* stop() has returned and start() was not called since
    settings,         \* the settings table: key -> JSON text, None for no row
    memories,         \* rows of the journey_memory table
    session_id,       \* core.session_id
    backend,          \* core.backend: None when _init_backend failed
    current_persona,  \* core.current_persona
    deep_mode,        \* core.deep_mode
    clarity_mode,     \* core.clarity_mode
    journey_memory_enabled,  \* core.journey_memory_enabled
    ultra_privacy_mode,      \* core.ultra_privacy_mode
    chat,             \* the chat() generator in progress, if any
    summary,          \* summarize_and_store_session calls so far, and what the last one did
    set_flags,        \* the flags a setter of this session has assigned
    ops,              \* calls made on the store so far
    knowledge_base,   \* core.knowledge_base
    search,           \* the last _simple_keyword_search call: its inputs and result
    environ,          \* os.environ: name -> value, None for unset
    scan_state,       \* web_api.scan_state (ScanStatus)
    scan_tasks,       \* run_scan_task tasks created and not yet finished
    scan_requests,    \* POST /api/personas/scan requests received so far
    scan_reply        \* the message of the last reply to such a request, None before

symVars == <<persona_a, persona_b, history, turn_count, is_active, gen, suspended, spoke>>

coreVars == <<logging_enabled, interactions, personas, db_errors>>

schedVars == <<running, thread, threads, tasks, jobs, next_id, now, calls, fg, ui_calls,
               removed, stop_returned>>

sessVars == <<settings, memories, session_id, backend, current_persona, deep_mode,
              clarity_mode, journey_memory_enabled, ultra_privacy_mode, chat, summary, set_flags, ops>>

ragVars == <<knowledge_base, search>>

envVars == <<environ>>

scanVars == <<scan_state, scan_tasks, scan_requests, scan_reply>>

vars == <<symVars, coreVars, schedVars, sessVars, ragVars, envVars, scanVars>>

\* ------------------------------------------------------- symposium: state

NoTurn == [speaker |-> None, text |-> <<>>, turn |-> 0, type |-> None, target |-> None]

NoPersona == [name |-> None, prompt |-> None]

NoPrompt == [system |-> None, opponent |-> None, topic |-> None,
             template |-> None, quoted |-> None, cue |-> None]

IdleGen == [pc |-> "idle", side |-> None, speaker |-> NoPersona, opponent |-> NoPersona,
            last_turn |-> NoTurn, prompt |-> NoPrompt, full_response |-> <<>>,
            events |-> <<>>]

SymInit ==
    /\ persona_a = PersonaA
    /\ persona_b \in PersonasB
    /\ history = <<>>
    /\ turn_count = 0
    /\ is_active = TRUE
    /\ gen = IdleGen
    /\ suspended = IdleGen
    /\ spoke = <<>>

\* DatabaseManager.__init__: the flag is loaded from the store, the table is
\* taken empty.
CoreInit ==
    /\ logging_enabled \in BOOLEAN
    /\ interactions = <<>>
    /\ db_errors = 0
    /\ personas \in Libraries

\* A store call that raised is caught in DatabaseManager and logged with
\* logger.error: `failures` more errors are on the log.
Errors(failures) == db_errors + failures <= MaxErrors /\ db_errors' = db_errors + failures

Failure(raised) == IF raised THEN 1 ELSE 0

\* db.log_interaction(row): nothing unless _logging_enabled; a failed insert
\* is swallowed.
LogInteraction(row, ok) ==
    IF logging_enabled /\ ok THEN Append(interactions, row) ELSE interactions

\* ------------------------------------------------- symposium: operations

\* An interject that records every interjection as addressed to nobody.
InterjectionTurnDropsTarget(message, target) ==
    [speaker |-> "Moderator", text |-> message, turn |-> turn_count + 1,
     type |-> "interjection", target |-> None]

\* interject(message, target): the entry it builds.
InterjectionTurn(message, target) ==
    [speaker |-> "Moderator", text |-> message, turn |-> turn_count + 1,
     type |-> "interjection", target |-> target]

Interject(message, target) ==
    /\ gen.pc = "idle"
    /\ Len(history) < MaxHistory
    /\ history' = Append(history, InterjectionTurn(message, target))
    /\ turn_count' = turn_count + 1
    /\ spoke' = Append(spoke, "m")
    /\ UNCHANGED <<persona_a, persona_b, is_active, gen, personas, logging_enabled, interactions, db_errors>>

\* stop_symposium: the one place that clears is_active.
StopSymposium ==
    /\ gen.pc = "idle"
    /\ is_active
    /\ is_active' = FALSE
    /\ UNCHANGED <<persona_a, persona_b, history, turn_count, gen, spoke,
                   personas, logging_enabled, interactions, db_errors>>

\* last_turn = self.history[-1] if self.history else None
LastTurn(h) == IF Len(h) > 0 THEN h[Len(h)] ELSE NoTurn

\* A next_turn that never looks at the interjection's target.
ForcedSideIgnoresTarget(last) == None

\* The forced speaker of lines 83-88, as a side; None when nothing is forced.
ForcedSide(last) ==
    IF last # NoTurn /\ last.type = "interjection"
    THEN IF last.target = "a" THEN "a"
         ELSE IF last.target = "b" THEN "b"
         ELSE None
    ELSE None

\* A backward scan that takes the name test the wrong way round.
LastPhilosopherTurnSwapped(h) ==
    LET idx == {i \in 1..Len(h) : h[i].type # "interjection"}
    IN  IF idx = {} THEN -1
        ELSE LET i == CHOOSE k \in idx : \A j \in idx : j <= k
             IN  IF h[i].speaker = persona_a.name THEN 1 ELSE 0

\* The backward scan of lines 95-103: -1 nobody, 0 "A spoke last", 1 "B spoke last".
LastPhilosopherTurn(h) ==
    LET idx == {i \in 1..Len(h) : h[i].type # "interjection"}
    IN  IF idx = {} THEN -1
        ELSE LET i == CHOOSE k \in idx : \A j \in idx : j <= k
             IN  IF h[i].speaker = persona_a.name THEN 0 ELSE 1

\* A next_turn that opens the debate with participant B.
SpeakerSideOpensWithB(h) ==
    IF ForcedSide(LastTurn(h)) # None
    THEN ForcedSide(LastTurn(h))
    ELSE IF LastPhilosopherTurn(h) = 1 THEN "a" ELSE "b"

\* Which participant next_turn picks as speaker (lines 90-116).
SpeakerSide(h) ==
    IF ForcedSide(LastTurn(h)) # None
    THEN ForcedSide(LastTurn(h))
    ELSE IF LastPhilosopherTurn(h) = -1 THEN "a"
         ELSE IF LastPhilosopherTurn(h) = 0 THEN "b"
         ELSE "a"

PersonaOf(side) == IF side = "a" THEN persona_a ELSE persona_b

\* The opponent: by comparing dicts when the speaker is forced (line 92),
\* spelled out otherwise (lines 108-116).
OpponentOf(h) ==
    IF ForcedSide(LastTurn(h)) # None
    THEN IF PersonaOf(SpeakerSide(h)) = persona_a THEN persona_b ELSE persona_a
    ELSE IF SpeakerSide(h) = "a" THEN persona_b ELSE persona_a

\* A _construct_debate_prompt without the moderator branch: an interjection is
\* answered with the rebuttal template.
ConstructDebatePromptNoModerator(speaker_persona, opponent_persona, last_turn) ==
    [system   |-> speaker_persona.prompt,
     opponent |-> opponent_persona.name,
     topic    |-> Topic,
     template |-> IF last_turn = NoTurn THEN "opening" ELSE "rebuttal",
     quoted   |-> IF last_turn = NoTurn THEN None ELSE last_turn.text,
     cue      |-> speaker_persona.name]

\* _construct_debate_prompt: the parts of the prompt string.
ConstructDebatePrompt(speaker_persona, opponent_persona, last_turn) ==
    [system   |-> speaker_persona.prompt,
     opponent |-> opponent_persona.name,
     topic    |-> Topic,
     template |-> IF last_turn = NoTurn THEN "opening"
                  ELSE IF last_turn.type = "interjection" THEN "interjection"
                  ELSE "rebuttal",
     quoted   |-> IF last_turn = NoTurn THEN None ELSE last_turn.text,
     cue      |-> speaker_persona.name]

\* The generator's locals once lines 80-124 have run.
StartedGen(h) ==
    [pc            |-> "running",
     side          |-> SpeakerSide(h),
     speaker       |-> PersonaOf(SpeakerSide(h)),
     opponent      |-> OpponentOf(h),
     last_turn     |-> LastTurn(h),
     prompt        |-> ConstructDebatePrompt(PersonaOf(SpeakerSide(h)), OpponentOf(h), LastTurn(h)),
     full_response |-> <<>>,
     events        |-> <<>>]

\* {"type": "token", "content": token, "speaker": speaker['name']}
TokenEvent(token, speaker) ==
    [type |-> "token", content |-> <<token>>, speaker |-> speaker.name, data |-> NoTurn]

\* turn_data numbered with turn_count, as the logged meta is, not turn_count + 1.
TurnDataOffByOne(loc) ==
    [speaker |-> loc.speaker.name, text |-> loc.full_response,
     turn |-> turn_count, type |-> None, target |-> None]

\* turn_data built before the last fragment was added to full_response.
TurnDataLosesLastFragment(loc) ==
    [speaker |-> loc.speaker.name,
     text |-> IF Len(loc.full_response) = 0 THEN <<>>
              ELSE SubSeq(loc.full_response, 1, Len(loc.full_response) - 1),
     turn |-> turn_count + 1, type |-> None, target |-> None]

\* turn_data of lines 133-137 (no "type" and no "target" key).
TurnData(loc) ==
    [speaker |-> loc.speaker.name, text |-> loc.full_response,
     turn |-> turn_count + 1, type |-> None, target |-> None]

\* {"type": "complete", "content": turn_data}
CompleteEvent(turn_data) ==
    [type |-> "complete", content |-> <<>>, speaker |-> None, data |-> turn_data]

\* s[:50]
Take50(s) == IF Len(s) <= 50 THEN s ELSE SubSeq(s, 1, 50)

\* The row log_interaction inserts (lines 143-150).
SymposiumRow(loc) ==
    [persona_name |-> loc.speaker.name,
     versus       |-> loc.opponent.name,
     context      |-> IF loc.last_turn # NoTurn THEN Take50(loc.last_turn.text) ELSE <<"Opening">>,
     ai_response  |-> loc.full_response,
     session_id   |-> session_id,
     meta_type    |-> "symposium",
     meta_turn    |-> turn_count]

\* full_response += token; yield {"type": "token", ...}   (lines 129-130)
YieldToken(loc, token) ==
    /\ \E s \in BackendStreams : IsPrefix(Append(loc.full_response, token), s)
    /\ gen' = [loc EXCEPT !.full_response = Append(@, token),
                          !.events = Append(@, TokenEvent(token, loc.speaker))]
    /\ UNCHANGED <<persona_a, persona_b, history, turn_count, is_active, spoke,
                   personas, logging_enabled, interactions, db_errors>>

\* The backend stream ended: lines 133-153, up to the yield of "complete".
RecordTurn(loc) ==
    /\ loc.full_response \in BackendStreams
    /\ Len(history) < MaxHistory
    /\ history' = Append(history, TurnData(loc))
    /\ spoke' = Append(spoke, loc.side)
    /\ \E ok \in BOOLEAN :
          /\ interactions' = IF logging_enabled THEN LogInteraction(SymposiumRow(loc), ok)
                             ELSE interactions
          /\ Errors(Failure(logging_enabled /\ ~ok))
    /\ turn_count' = turn_count + 1
    /\ gen' = [loc EXCEPT !.pc = "completed",
                          !.events = Append(@, CompleteEvent(TurnData(loc)))]
    /\ UNCHANGED <<persona_a, persona_b, is_active, personas, logging_enabled>>

\* The backend stream raised: the exception leaves the generator, which is finished.
BackendRaise(loc) ==
    /\ gen' = IdleGen
    /\ UNCHANGED <<persona_a, persona_b, history, turn_count, is_active, spoke,
                   personas, logging_enabled, interactions, db_errors>>

\* One resumption of the generator, from locals `loc`, to its next yield or its end.
Resume(loc) ==
    \/ \E token \in Tokens : YieldToken(loc, token)
    \/ RecordTurn(loc)
    \/ BackendRaise(loc)

\* The caller's first next(): speaker, prompt, and the stream's first item.
NextTurnBegin ==
    /\ gen.pc = "idle"
    /\ Resume(StartedGen(history))

\* A later next() while fragments are being streamed.
NextTurnResume ==
    /\ gen.pc = "running"
    /\ Resume(gen)

\* The next() after "complete": the generator returns.
NextTurnFinish ==
    /\ gen.pc = "completed"
    /\ gen' = IdleGen
    /\ UNCHANGED <<persona_a, persona_b, history, turn_count, is_active, spoke,
                   personas, logging_enabled, interactions, db_errors>>

\* An abandoned stream that leaves what it has generated so far as a turn.
NextTurnAbandonRecordsPartial ==
    /\ gen.pc = "running"
    /\ Len(history) < MaxHistory
    /\ history' = Append(history, TurnData(gen))
    /\ spoke' = Append(spoke, gen.side)
    /\ turn_count' = turn_count + 1
    /\ gen' = IdleGen
    /\ UNCHANGED <<persona_a, persona_b, is_active,
                   personas, logging_enabled, interactions, db_errors>>

\* The caller drops the stream at a fragment boundary.
NextTurnAbandon ==
    /\ gen.pc = "running"
    /\ gen' = IdleGen
    /\ UNCHANGED <<persona_a, persona_b, history, turn_count, is_active, spoke,
                   personas, logging_enabled, interactions, db_errors>>

SymNext ==
    \/ \E message \in Messages, target \in Targets : Interject(message, target)
    \/ NextTurnBegin
    \/ NextTurnResume
    \/ NextTurnFinish
    \/ NextTurnAbandon
    \/ StopSymposium

\* The event loop of web_api.py turns to another request: the stream being
\* served waits at its yield (`await asyncio.sleep(0)`, line 727) and the
\* waiting one, if any, is the one resumed next.
Switch ==
    /\ gen.pc # "idle" \/ suspended.pc # "idle"
    /\ gen' = suspended
    /\ suspended' = gen
    /\ UNCHANGED <<persona_a, persona_b, history, turn_count, is_active, spoke,
                   personas, logging_enabled, interactions, db_errors>>

\* ------------------------------------------------------- scheduler: state

NoTask == [id |-> 0, interval_minutes |-> 0, action_type |-> None,
           persona_name |-> None, enabled |-> FALSE, last_run |-> 0]

\* A thread that start() has just started, about to test `while self.running`
\* (the same position as a thread whose sleep has ended).
NewThread == [pc |-> "sleep", pending |-> <<>>, cur |-> NoTask, persona |-> NoPersona]

SchedInit ==
    /\ running = FALSE
    /\ thread = 0
    /\ threads = <<>>
    /\ tasks = <<>>
    /\ jobs = <<>>
    /\ next_id = 1
    /\ now = 0
    /\ calls = 0
    /\ fg = [op |-> None, pc |-> "idle", was_running |-> FALSE]
    /\ ui_calls = 0
    /\ removed = {}
    /\ stop_returned = FALSE

\* The foreground caller enters `op`: what it called, and what `running` was.
Called(op, pc) == [op |-> op, pc |-> pc, was_running |-> running]

\* ------------------------------------------- scheduler: foreground calls

\* A start() without the `if self.running: return` test.
StartBodyAlwaysSpawns ==
    /\ running' = TRUE
    /\ threads' = Append(threads, NewThread)
    /\ thread' = Len(threads) + 1

\* start(): the `if self.running: return` test and the body after it.
StartBody ==
    IF running
    THEN UNCHANGED <<running, thread, threads>>
    ELSE /\ running' = TRUE
         /\ threads' = Append(threads, NewThread)
         /\ thread' = Len(threads) + 1

Start ==
    /\ fg.pc = "idle"
    /\ calls < MaxCalls
    /\ calls' = calls + 1
    /\ StartBody
    /\ fg' = Called("start", "idle")
    /\ stop_returned' = FALSE
    /\ UNCHANGED <<tasks, jobs, next_id, now, ui_calls, removed, personas, logging_enabled, interactions, db_errors>>

\* stop(), up to the join: self.running = False; if self.thread: join(timeout=1.0)
StopBegin ==
    /\ fg.pc = "idle"
    /\ calls < MaxCalls
    /\ calls' = calls + 1
    /\ running' = FALSE
    /\ IF thread # 0
       THEN fg' = Called("stop", "joining") /\ UNCHANGED stop_returned
       ELSE fg' = Called("stop", "idle") /\ stop_returned' = TRUE
    /\ UNCHANGED <<thread, threads, tasks, jobs, next_id, now, ui_calls, removed,
                   personas, logging_enabled, interactions, db_errors>>

\* join(timeout=1.0) returns: the thread has ended, or the second has passed,
\* which a thread inside a backend call or inside sleep(1) can outlast.
JoinReturns(th) == threads[th].pc \in {"exited", "crashed", "exec", "sleep"}

StopReturn ==
    /\ fg.pc = "joining"
    /\ JoinReturns(thread)
    /\ fg' = [fg EXCEPT !.pc = "idle"]
    /\ stop_returned' = TRUE
    /\ UNCHANGED <<calls, running, thread, threads, tasks, jobs, next_id, now, ui_calls, removed,
                   personas, logging_enabled, interactions, db_errors>>

\* The ScheduledTask add_task builds; the id is fresh (uuid4).
NewTask(interval, action, persona) ==
    [id |-> next_id, interval_minutes |-> interval, action_type |-> action,
     persona_name |-> persona, enabled |-> TRUE, last_run |-> 0]

\* _register_job: schedule.every(n).minutes.do(self._execute_wrapper, task), tagged task.id.
\* The job's last_run is None (here -1) until the job has run.
RegisterJob(task) ==
    [task |-> task, next_run |-> now + task.interval_minutes, last_run |-> -1]

AddTask(interval, action, persona) ==
    /\ fg.pc = "idle"
    /\ calls < MaxCalls
    /\ calls' = calls + 1
    /\ tasks' = Append(tasks, NewTask(interval, action, persona))
    /\ jobs' = Append(jobs, RegisterJob(NewTask(interval, action, persona)))
    /\ next_id' = next_id + 1
    /\ fg' = Called("add_task", "idle")
    /\ UNCHANGED <<running, thread, threads, now, ui_calls, removed, stop_returned,
                   personas, logging_enabled, interactions, db_errors>>

\* self.tasks = [t for t in self.tasks if t.id != task_id]
TasksWithout(task_id) == SelectSeq(tasks, LAMBDA t : t.id # task_id)

\* A remove_task that leaves the schedule library's jobs alone.
JobsWithoutClear(task_id) == jobs

\* schedule.clear(task_id): drops the jobs tagged task_id.
JobsWithout(task_id) == SelectSeq(jobs, LAMBDA j : j.task.id # task_id)

RemoveTask(task_id) ==
    /\ fg.pc = "idle"
    /\ calls < MaxCalls
    /\ calls' = calls + 1
    /\ tasks' = TasksWithout(task_id)
    /\ jobs' = JobsWithout(task_id)
    /\ removed' = removed \cup {task_id}
    /\ fg' = Called("remove_task", "idle")
    /\ UNCHANGED <<running, thread, threads, next_id, now, ui_calls, stop_returned,
                   personas, logging_enabled, interactions, db_errors>>

\* --------------------------------------------- scheduler: background loop

\* job.should_run
ShouldRun(job) == now >= job.next_run

RECURSIVE InsertByNextRun(_, _)
InsertByNextRun(job, sorted) ==
    IF sorted = <<>> THEN <<job>>
    ELSE IF job.next_run < Head(sorted).next_run THEN <<job>> \o sorted
    ELSE <<Head(sorted)>> \o InsertByNextRun(job, Tail(sorted))

RECURSIVE SortedByNextRun(_)
\* sorted(jobs): by next_run, jobs of equal next_run in list order.
SortedByNextRun(js) ==
    IF js = <<>> THEN <<>>
    ELSE InsertByNextRun(js[Len(js)], SortedByNextRun(SubSeq(js, 1, Len(js) - 1)))

\* run_pending() collects the due jobs: sorted(job for job in jobs if job.should_run)
RunnableJobs == SortedByNextRun(SelectSeq(jobs, ShouldRun))

\* Where a thread is once the jobs in `pending` are left to run: in the pass,
\* or, with none left, in time.sleep(1).
AfterJob(pending) == IF pending = <<>> THEN "sleep" ELSE "pass"

\* One turn of `while self.running: schedule.run_pending(); time.sleep(1)`, from
\* the end of the sleep (or the thread's start) to the collection of the due
\* jobs: the thread ends when running is false.
LoopIteration(th) ==
    /\ threads[th].pc = "sleep"
    /\ threads' = IF running
                  THEN [threads EXCEPT ![th].pc = AfterJob(RunnableJobs),
                                       ![th].pending = RunnableJobs]
                  ELSE [threads EXCEPT ![th].pc = "exited"]
    /\ UNCHANGED <<calls, running, thread, tasks, jobs, next_id, now, fg, ui_calls, removed,
                   stop_returned, personas, logging_enabled, interactions, db_errors>>

\* job.run() after the job function returned: last_run = now, next_run = now + interval.
\* The job object may no longer be in the list; then the list does not change.
Rescheduled(task) ==
    [k \in 1..Len(jobs) |->
        IF jobs[k].task.id = task.id
        THEN [jobs[k] EXCEPT !.next_run = now + task.interval_minutes, !.last_run = now]
        ELSE jobs[k]]

\* Step 1 of execute_task: the personas it may pick; empty when it returns at once.
ResolvePersona(task) ==
    LET valid_personas == GetValidPersonas(personas)
    IN  IF Lower(task.persona_name) = "random"
        THEN {valid_personas[k] : k \in 1..Len(valid_personas)}
        ELSE LET hits == {k \in 1..Len(valid_personas) :
                             valid_personas[k].name = task.persona_name}
             IN  IF hits = {} THEN {}
                 ELSE {valid_personas[CHOOSE k \in hits : \A j \in hits : k <= j]}

\* A loop thread ended by an exception that left _run_loop.
CrashedThread == [NewThread EXCEPT !.pc = "crashed"]

\* The loop takes the next job of the pass and calls _execute_wrapper(task):
\* it returns at once (task disabled, no persona), or builds the prompt and
\* reaches the backend call.  persona['prompt'] (line 119) is read before the
\* try: for a persona without that key the KeyError leaves execute_task,
\* run_pending and _run_loop, none of which catches it.
RunJob(th) ==
    /\ threads[th].pc = "pass"
    /\ LET task == Head(threads[th].pending).task
       IN  IF task.enabled /\ ResolvePersona(task) # {}
           THEN /\ \E persona \in ResolvePersona(task) :
                      threads' = IF persona.prompt = None
                                 THEN [threads EXCEPT ![th] = CrashedThread]
                                 ELSE [threads EXCEPT ![th].pc = "exec",
                                                      ![th].pending = Tail(@),
                                                      ![th].cur = task,
                                                      ![th].persona = persona]
                /\ UNCHANGED jobs
           ELSE /\ threads' = [threads EXCEPT ![th].pc = AfterJob(Tail(threads[th].pending)),
                                              ![th].pending = Tail(@)]
                /\ jobs' = Rescheduled(task)
    /\ UNCHANGED <<calls, running, thread, tasks, next_id, now, fg, ui_calls, removed,
                   stop_returned, personas, logging_enabled, interactions, db_errors>>

\* The row execute_task logs (lines 134-140).
SchedulerRow(task, persona) ==
    [persona_name |-> persona.name,
     versus       |-> None,
     context      |-> <<"SCHEDULED">>,
     ai_response  |-> <<"r">>,
     session_id   |-> "scheduler",
     meta_type    |-> task.action_type,
     meta_turn    |-> 0]

\* The thread after execute_task returned and job.run() rescheduled the job.
JobDone(th) ==
    [threads EXCEPT ![th].pc = AfterJob(threads[th].pending),
                    ![th].cur = NoTask,
                    ![th].persona = NoPersona]

\* The backend call returns: deliver (a callback is registered, as tui_app.py
\* 613 does), log when logging is enabled, and the job is rescheduled.
ExecDeliver(th) ==
    /\ threads[th].pc = "exec"
    /\ ui_calls' = ui_calls + 1
    /\ \E ok \in BOOLEAN :
          /\ interactions' = IF logging_enabled
                             THEN LogInteraction(SchedulerRow(threads[th].cur, threads[th].persona), ok)
                             ELSE interactions
          /\ Errors(Failure(logging_enabled /\ ~ok))
    /\ jobs' = Rescheduled(threads[th].cur)
    /\ threads' = JobDone(th)
    /\ UNCHANGED <<calls, running, thread, tasks, next_id, now, fg, removed, stop_returned,
                   personas, logging_enabled>>

\* The backend call raises: caught and logged (line 141); the job is rescheduled.
ExecFail(th) ==
    /\ threads[th].pc = "exec"
    /\ jobs' = Rescheduled(threads[th].cur)
    /\ threads' = JobDone(th)
    /\ UNCHANGED <<calls, running, thread, tasks, next_id, now, fg, ui_calls, removed,
                   stop_returned, personas, logging_enabled, interactions, db_errors>>

\* A minute passes.
Tick ==
    /\ calls < MaxCalls
    /\ calls' = calls + 1
    /\ now' = now + 1
    /\ UNCHANGED <<running, thread, threads, tasks, jobs, next_id, fg, ui_calls, removed,
                   stop_returned, personas, logging_enabled, interactions, db_errors>>

SchedNext ==
    \/ Start
    \/ StopBegin
    \/ StopReturn
    \/ \E interval \in Intervals, action \in ActionTypes, persona \in PersonaNames :
          AddTask(interval, action, persona)
    \/ \E task_id \in 1..(next_id - 1) : RemoveTask(task_id)
    \/ \E th \in 1..Len(threads) :
          \/ LoopIteration(th)
          \/ RunJob(th)
          \/ ExecDeliver(th)
          \/ ExecFail(th)
    \/ Tick

\* ---------------------------------------------------------------- retrieval

\* self.rag_limit
RagLimit == 3

\* The words of the content a snippet keeps.
SnippetWords == 500

UpperCase == "ABCDEFGHIJKLMNOPQRSTUVWXYZ"
LowerCase == "abcdefghijklmnopqrstuvwxyz"

\* The whitespace of the texts drawn here.
Whitespace == {" "}

\* The lowercase letter of each uppercase letter.
LowerOf ==
    [c \in {SubSeq(UpperCase, i, i) : i \in 1..Len(UpperCase)} |->
        LET i == CHOOSE i \in 1..Len(UpperCase) : SubSeq(UpperCase, i, i) = c
        IN  SubSeq(LowerCase, i, i)]

RECURSIVE LowerText(_)
\* str.lower()
LowerText(text) ==
    IF text = "" THEN ""
    ELSE LET c == SubSeq(text, 1, 1)
         IN  (IF c \in DOMAIN LowerOf THEN LowerOf[c] ELSE c)
             \o LowerText(SubSeq(text, 2, Len(text)))

RECURSIVE SplitFrom(_, _, _)
\* The words of `text` after the word in progress `word` and the words `words`.
SplitFrom(text, word, words) ==
    LET closed == IF word = "" THEN words ELSE Append(words, word)
    IN  IF text = "" THEN closed
        ELSE IF SubSeq(text, 1, 1) \in Whitespace
             THEN SplitFrom(SubSeq(text, 2, Len(text)), "", closed)
             ELSE SplitFrom(SubSeq(text, 2, Len(text)), word \o SubSeq(text, 1, 1), words)

\* str.split(): the maximal runs of non-whitespace.
Split(text) == SplitFrom(text, "", <<>>)

RECURSIVE Join(_, _)
\* sep.join(words)
Join(sep, words) ==
    IF words = <<>> THEN ""
    ELSE IF Len(words) = 1 THEN words[1]
    ELSE words[1] \o sep \o Join(sep, Tail(words))

\* sub in text
Contains(sub, text) ==
    \E i \in 1..(Len(text) - Len(sub) + 1) : SubSeq(text, i, i + Len(sub) - 1) = sub

\* words[:n]
Take(words, n) == IF Len(words) <= n THEN words ELSE SubSeq(words, 1, n)

\* A search that lets every document through, whatever the filter.
FilteredDocsUnfiltered(library_filter) == knowledge_base

\* Step 1: the documents the filter lets through, in knowledge-base order.
FilteredDocs(library_filter) ==
    IF library_filter # <<>>
    THEN SelectSeq(knowledge_base,
                   LAMBDA d : \E k \in 1..Len(library_filter) :
                                 Contains(LowerText(library_filter[k]), LowerText(d.filename)))
    ELSE knowledge_base

\* The query words with the threshold one lower: len(word) > 2.
QueryWordsOverTwo(query) ==
    LET words == Split(query)
    IN  {LowerText(words[k]) : k \in {k \in 1..Len(words) : Len(words[k]) > 2}}

\* set(word.lower() for word in query.split() if len(word) > 3)
QueryWords(query) ==
    LET words == Split(query)
    IN  {LowerText(words[k]) : k \in {k \in 1..Len(words) : Len(words[k]) > 3}}

\* sum(1 for word in query_words if word in content_lower)
Score(doc, query_words) ==
    Cardinality({word \in query_words : Contains(word, LowerText(doc.content))})

Scored(doc, query_words) ==
    [score   |-> Score(doc, query_words),
     snippet |-> Join(" ", Take(Split(doc.content), SnippetWords)),
     source  |-> doc.filename]

\* item placed before the entries of its score: an unstable sort.
InsertByScoreBeforeEquals(item, sorted) ==
    LET before == {k \in 1..Len(sorted) : sorted[k].score > item.score}
        n == IF before = {} THEN 0 ELSE CHOOSE k \in before : \A j \in before : j <= k
    IN  SubSeq(sorted, 1, n) \o <<item>> \o SubSeq(sorted, n + 1, Len(sorted))

\* item placed into a list sorted by score descending, behind its equals.
InsertByScore(item, sorted) ==
    LET before == {k \in 1..Len(sorted) : sorted[k].score >= item.score}
        n == IF before = {} THEN 0 ELSE CHOOSE k \in before : \A j \in before : j <= k
    IN  SubSeq(sorted, 1, n) \o <<item>> \o SubSeq(sorted, n + 1, Len(sorted))

RECURSIVE SortedByScore(_)
\* list.sort(key=score, reverse=True): stable.
SortedByScore(items) ==
    IF items = <<>> THEN <<>>
    ELSE InsertByScore(items[Len(items)], SortedByScore(SubSeq(items, 1, Len(items) - 1)))

\* _simple_keyword_search(query, library_filter)
SimpleKeywordSearch(query, library_filter) ==
    LET filtered_docs == FilteredDocs(library_filter)
        query_words == QueryWords(query)
        all == [k \in 1..Len(filtered_docs) |-> Scored(filtered_docs[k], query_words)]
        scored_docs == SelectSeq(all, LAMBDA item : item.score > 0)
    IN  IF query_words = {} THEN <<>>
        ELSE Take(SortedByScore(scored_docs), RagLimit)

\* self.current_persona.get('library_filter', []), for the personas drawn
\* here, which carry no such key.
LibraryFilter(persona) == <<>>

\* The documents, queries and filters searches are drawn from.
Docs == { [filename |-> "plato_a.txt",     content |-> "the soul is good"],
          [filename |-> "nietzsche_b.txt", content |-> "Soul  and virtue"],
          [filename |-> "Plato_c.txt",     content |-> "virtue"],
          [filename |-> "kant_d.txt",      content |-> "good soul virtue"] }

SearchQueries == {"hi ok", "soul", "Soul SOUL", "soul virtue good", "", "virt",
                  "the and", "what is virtue"}

LibraryFilters == {<<>>, <<"plato_">>, <<"PLATO">>, <<"zeno">>, <<"nietzsche", "kant">>}

\* Every knowledge base of at most n documents.
KnowledgeBases(n) == UNION {[1..k -> Docs] : k \in 0..n}

IdleSearch == [pc |-> "idle", query |-> "", library_filter |-> <<>>, results |-> <<>>]

\* The variables of the process environment the program reads.
EnvNames == {"WHETSTONE_VERBOSE"}

\* No variable set.
EmptyEnv == [name \in EnvNames |-> None]

\* os.getenv(name, default)
Getenv(name, default) == IF environ[name] = None THEN default ELSE environ[name]

\* No documents loaded, no search made, an empty environment.
RagFixed == knowledge_base = <<>> /\ search = IdleSearch /\ environ = EmptyEnv

\* One call of _simple_keyword_search.
Search(query, library_filter) ==
    /\ search.pc = "idle"
    /\ search' = [pc |-> "done", query |-> query, library_filter |-> library_filter,
                  results |-> SimpleKeywordSearch(query, library_filter)]
    /\ UNCHANGED knowledge_base

\* --------------------------------------------------------- session: state

SettingKeys == {"deep_mode", "clarity_mode", "journey_memory_enabled", "ultra_privacy_mode",
                "logging_enabled", "current_persona"}

\* f"persona_preamble_{persona['name']}"
PreambleKey(name) == "persona_preamble_" \o name

PreambleKeys == {PreambleKey(Library[k].persona.name) : k \in 1..Len(Library)}

\* A fresh database, and one that an earlier session left behind.
EmptyStore == [k \in SettingKeys \cup PreambleKeys |-> None]

SavedStore == [EmptyStore EXCEPT !["logging_enabled"] = "true",
                                 !["journey_memory_enabled"] = "true",
                                 !["current_persona"] = "Plato"]

InitialStores == {EmptyStore, SavedStore}

\* json.dumps / json.loads on a bool, and json.dumps on a name.
DumpsBool(b) == IF b THEN "true" ELSE "false"

LoadsBool(text) == text = "true"

DumpsName(name) == IF name = None THEN "null" ELSE name

\* db.get_setting(key, default) for a bool: the default when the row is absent
\* or the read raised (key in `failed`).
GetBoolSetting(store, key, default, failed) ==
    IF key \in failed \/ store[key] = None THEN default ELSE LoadsBool(store[key])

\* db.get_setting("current_persona", None)
GetNameSetting(store, key, failed) ==
    IF key \in failed \/ store[key] \in {None, "null"} THEN None ELSE store[key]

\* db.get_setting(key, default) for a string.
GetTextSetting(store, key, default, failed) ==
    IF key \in failed \/ store[key] = None THEN default ELSE store[key]

\* db.set_setting(key, value): INSERT OR REPLACE, or nothing when the write raised.
SetSetting(store, key, text, ok) == IF ok THEN [store EXCEPT ![key] = text] ELSE store

\* _load_saved_persona: nothing in ultra privacy; else the entry of core.personas
\* whose KEY is the saved name.
LoadSavedPersona(store, ultra, failed) ==
    LET saved == GetNameSetting(store, "current_persona", failed)
        hits  == {k \in 1..Len(Library) : Library[k].key = saved}
    IN  IF ultra \/ saved = None \/ hits = {} THEN NoPersona
        ELSE Library[CHOOSE k \in hits : TRUE].persona

\* The specification's privacyMode: persistence is switched off, by either of
\* the two flags the code has for it.
PrivacyMode == ultra_privacy_mode \/ ~logging_enabled

\* n counts the chat() calls of the session; private is PrivacyMode at the call.
\* prompt is what the backend was given, as the sequence of its parts.
IdleChat == [pc |-> "idle", n |-> 0, private |-> FALSE, user_query |-> None, searched |-> FALSE, context_count |-> 0,
             persona_prompt |-> None, prompt |-> <<>>, full_response |-> <<>>, yielded |-> <<>>]

\* n counts the summarize_and_store_session calls of the session; the rest
\* describes the last one: whether it got past the guards to get_history, the
\* rows it got, whether it obtained a summary, whether the store took writes.
NoSummary == [n |-> 0, fetched |-> FALSE, rows |-> 0, generated |-> FALSE, store_ok |-> TRUE]

\* PhilosopherCore.__init__ against `store`, the reads in `failed` raising.
Construct(store, failed) ==
    /\ logging_enabled' = GetBoolSetting(store, "logging_enabled", FALSE, failed)
    /\ deep_mode' = GetBoolSetting(store, "deep_mode", FALSE, failed)
    /\ clarity_mode' = GetBoolSetting(store, "clarity_mode", FALSE, failed)
    /\ journey_memory_enabled' = GetBoolSetting(store, "journey_memory_enabled", TRUE, failed)
    /\ ultra_privacy_mode' = GetBoolSetting(store, "ultra_privacy_mode", FALSE, failed)
    /\ current_persona' =
          LoadSavedPersona(store, GetBoolSetting(store, "ultra_privacy_mode", FALSE, failed),
                           failed)

\* A journey memory an earlier program left in the store.
SavedMemory == [summary_text |-> <<"s">>, persona_name |-> "Plato", session_id |-> "sid0"]

VerboseEnv == [EmptyEnv EXCEPT !["WHETSTONE_VERBOSE"] = "1"]

\* What a session may start from: the tables of the store, whether the
\* backend could be created, and the process environment.
Deployments ==
    {[settings |-> st, backend |-> b, memories |-> <<>>, environ |-> EmptyEnv] :
        st \in InitialStores, b \in {"llm", None}}
    \cup {[settings |-> SavedStore, backend |-> "llm", memories |-> <<SavedMemory>>,
           environ |-> EmptyEnv],
          [settings |-> SavedStore, backend |-> "llm", memories |-> <<>>,
           environ |-> VerboseEnv]}

SessInit ==
    /\ \E d \in Deployments :
          /\ settings = d.settings /\ backend = d.backend
          /\ memories = d.memories /\ environ = d.environ
    /\ logging_enabled = GetBoolSetting(settings, "logging_enabled", FALSE, {})
    /\ deep_mode = GetBoolSetting(settings, "deep_mode", FALSE, {})
    /\ clarity_mode = GetBoolSetting(settings, "clarity_mode", FALSE, {})
    /\ journey_memory_enabled = GetBoolSetting(settings, "journey_memory_enabled", TRUE, {})
    /\ ultra_privacy_mode = GetBoolSetting(settings, "ultra_privacy_mode", FALSE, {})
    /\ current_persona = LoadSavedPersona(settings, ultra_privacy_mode, {})
    /\ session_id = SessionId
    /\ interactions = <<>>
    /\ db_errors = 0
    /\ personas = Library
    /\ chat = IdleChat
    /\ summary = NoSummary
    /\ set_flags = {}
    /\ ops = 0

\* What the other specifications hold the session at.
SessFixed ==
    /\ settings = EmptyStore
    /\ memories = <<>>
    /\ session_id = SessionId
    /\ backend = "llm"
    /\ current_persona = NoPersona
    /\ deep_mode = FALSE
    /\ clarity_mode = FALSE
    /\ journey_memory_enabled = TRUE
    /\ chat = IdleChat
    /\ summary = NoSummary
    /\ set_flags = {}
    /\ ops = 0

\* One more call on the store.
Op == ops < MaxOps /\ ops' = ops + 1

\* ------------------------------------------------------------ session: chat

ErrorFragment == "Error: System not ready (No persona or backend)."


\* chat() with no persona selected, as the first chat definition (core.py
\* 123-124) has it: it picks the first persona.
ChatPersonaFallback ==
    IF current_persona # NoPersona THEN current_persona
    ELSE IF personas # <<>> THEN personas[1].persona
    ELSE [name |-> "System", prompt |-> "fallback"]

\* The persona chat() works with: self.current_persona, or none (line 344).
ChatPersona == current_persona

\* The instructions _construct_prompt chooses from (their opening words).
LengthThorough == "Provide a thoughtful, thorough response."
LengthConcise == "IMPORTANT: Keep your response concise - 2-3 sentences maximum."
ClarityInstruction == "CLARITY MODE: Speak in plain, accessible language."
ContextHeader == "Here is some context from your library that may be relevant to the user's query:"
GroundedInstruction == "Now, carefully consider the user's question and respond in character, grounding your response in the provided texts."
InCharacterInstruction == "Carefully consider the user's question and respond in character."
SpeakerCue == "AI Philosopher:"

\* The header of the journey-memory block of the first chat definition (line 134).
MemoryHeader == "[PREVIOUSLY ON YOUR JOURNEY]"

\* f"Reference from '{item['source']}':\n{item['snippet']}..." per snippet
References(context_snippets) ==
    [k \in 1..Len(context_snippets) |->
        "Reference from '" \o context_snippets[k].source \o "': " \o context_snippets[k].snippet]

\* _construct_prompt(query, context_snippets) for a persona with a prompt: the
\* parts of the prompt string, in order.  custom_preamble is what get_setting
\* returned for the persona's preamble key.
ConstructPrompt(query, context_snippets, custom_preamble) ==
    LET verbose == deep_mode \/ Getenv("WHETSTONE_VERBOSE", "0") = "1"
        length_instruction == IF verbose THEN LengthThorough ELSE LengthConcise
        clarity_instruction == IF clarity_mode THEN <<ClarityInstruction>> ELSE <<>>
        persona_prompt == IF custom_preamble # ""
                          THEN <<custom_preamble, ChatPersona.prompt>>
                          ELSE <<ChatPersona.prompt>>
    IN  persona_prompt
        \o (IF context_snippets # <<>>
            THEN <<ContextHeader>> \o References(context_snippets) \o <<GroundedInstruction>>
            ELSE <<InCharacterInstruction>>)
        \o <<length_instruction>> \o clarity_instruction
        \o <<"User's Question: " \o query, SpeakerCue>>

\* chat() gets as far as the store read of _construct_prompt (line 312).
ReadsPreamble == ChatPersona # NoPersona /\ backend # None /\ ChatPersona.prompt # None

\* chat(user_query) up to the backend call (lines 344-357): the error fragment,
\* or retrieval and the prompt; persona["prompt"] raises for a persona without
\* that key.  preamble_ok: the read of the preamble did not raise.
ChatBegin(user_query, preamble_ok) ==
    /\ Op
    /\ chat.pc # "running"
    /\ Errors(Failure(ReadsPreamble /\ ~preamble_ok))
    /\ chat' =
          IF ChatPersona = NoPersona \/ backend = None
          THEN [IdleChat EXCEPT !.pc = "completed", !.n = chat.n + 1,
                                !.private = PrivacyMode,
                                !.user_query = user_query,
                                !.yielded = <<ErrorFragment>>]
          ELSE LET context == SimpleKeywordSearch(user_query, LibraryFilter(ChatPersona))
                   failed == IF preamble_ok THEN {} ELSE {PreambleKey(ChatPersona.name)}
                   custom_preamble ==
                       GetTextSetting(settings, PreambleKey(ChatPersona.name), "", failed)
               IN  IF ChatPersona.prompt = None
                   THEN [IdleChat EXCEPT !.pc = "failed", !.n = chat.n + 1,
                                         !.private = PrivacyMode,
                                         !.user_query = user_query,
                                         !.searched = TRUE,
                                         !.context_count = Len(context)]
                   ELSE [IdleChat EXCEPT
                           !.pc = "running",
                           !.n = chat.n + 1,
                           !.private = PrivacyMode,
                           !.user_query = user_query,
                           !.searched = TRUE,
                           !.context_count = Len(context),
                           !.persona_prompt = ChatPersona.prompt,
                           !.prompt = ConstructPrompt(user_query, context, custom_preamble)]
    /\ UNCHANGED <<settings, memories, session_id, backend, current_persona, deep_mode,
                   clarity_mode, journey_memory_enabled, ultra_privacy_mode, summary,
                   set_flags, personas, logging_enabled, interactions>>

\* full_response += token; yield token   (lines 357-359)
ChatToken(token) ==
    /\ chat.pc = "running"
    /\ \E stream \in BackendStreams : IsPrefix(Append(chat.full_response, token), stream)
    /\ chat' = [chat EXCEPT !.full_response = Append(@, token), !.yielded = Append(@, token)]
    /\ UNCHANGED <<settings, memories, session_id, backend, current_persona, deep_mode,
                   clarity_mode, journey_memory_enabled, ultra_privacy_mode, summary, set_flags, ops,
                   personas, logging_enabled, interactions, db_errors>>

\* The row chat() logs (lines 362-368).
ChatRow ==
    [persona_name       |-> current_persona.name,
     user_query         |-> chat.user_query,
     ai_response        |-> chat.full_response,
     session_id         |-> session_id,
     meta_deep_mode     |-> deep_mode,
     meta_context_count |-> chat.context_count]


\* What chat() leaves in the interactions table when its stream has ended.
ChatLog(ok) == LogInteraction(ChatRow, ok)

\* A chat() that a failed insert ends with the store's exception.
ChatFinishAborts(ok) ==
    /\ chat.pc = "running"
    /\ chat.full_response \in BackendStreams
    /\ interactions' = ChatLog(ok)
    /\ Errors(Failure(logging_enabled /\ ~ok))
    /\ chat' = [chat EXCEPT !.pc = IF logging_enabled /\ ~ok THEN "failed" ELSE "completed"]
    /\ UNCHANGED <<settings, memories, session_id, backend, current_persona, deep_mode,
                   clarity_mode, journey_memory_enabled, ultra_privacy_mode, summary, set_flags, ops,
                   personas, logging_enabled>>

\* The backend stream ends normally: log, and the generator is exhausted.
ChatFinish(ok) ==
    /\ chat.pc = "running"
    /\ chat.full_response \in BackendStreams
    /\ interactions' = ChatLog(ok)
    /\ Errors(Failure(logging_enabled /\ ~ok))
    /\ chat' = [chat EXCEPT !.pc = "completed"]
    /\ UNCHANGED <<settings, memories, session_id, backend, current_persona, deep_mode,
                   clarity_mode, journey_memory_enabled, ultra_privacy_mode, summary, set_flags, ops,
                   personas, logging_enabled>>

\* The backend stream raises after the fragments so far: the exception leaves
\* the for loop and the generator; line 362 is not reached.
ChatRaise ==
    /\ chat.pc = "running"
    /\ chat' = [chat EXCEPT !.pc = "failed"]
    /\ UNCHANGED <<settings, memories, session_id, backend, current_persona, deep_mode,
                   clarity_mode, journey_memory_enabled, ultra_privacy_mode, summary, set_flags, ops,
                   personas, logging_enabled, interactions, db_errors>>

\* The caller stops iterating and drops the generator.
ChatAbandon ==
    /\ chat.pc = "running"
    /\ chat' = [chat EXCEPT !.pc = "abandoned"]
    /\ UNCHANGED <<settings, memories, session_id, backend, current_persona, deep_mode,
                   clarity_mode, journey_memory_enabled, ultra_privacy_mode, summary, set_flags, ops,
                   personas, logging_enabled, interactions, db_errors>>

\* --------------------------------------------------------- session: setters

SetDeepMode(enabled, ok) ==
    /\ Op
    /\ deep_mode' = enabled
    /\ settings' = SetSetting(settings, "deep_mode", DumpsBool(enabled), ok)
    /\ set_flags' = set_flags \cup {"deep_mode"}
    /\ Errors(Failure(~ok))
    /\ UNCHANGED <<memories, session_id, backend, current_persona, clarity_mode,
                   journey_memory_enabled, ultra_privacy_mode, chat, summary,
                   personas, logging_enabled, interactions>>

SetClarityMode(enabled, ok) ==
    /\ Op
    /\ clarity_mode' = enabled
    /\ settings' = SetSetting(settings, "clarity_mode", DumpsBool(enabled), ok)
    /\ set_flags' = set_flags \cup {"clarity_mode"}
    /\ Errors(Failure(~ok))
    /\ UNCHANGED <<memories, session_id, backend, current_persona, deep_mode,
                   journey_memory_enabled, ultra_privacy_mode, chat, summary,
                   personas, logging_enabled, interactions>>

\* set_logging: the logging_enabled property setter of DatabaseManager.
SetLogging(enabled, ok) ==
    /\ Op
    /\ logging_enabled' = enabled
    /\ settings' = SetSetting(settings, "logging_enabled", DumpsBool(enabled), ok)
    /\ set_flags' = set_flags \cup {"logging_enabled"}
    /\ Errors(Failure(~ok))
    /\ UNCHANGED <<memories, session_id, backend, current_persona, deep_mode, clarity_mode,
                   journey_memory_enabled, ultra_privacy_mode, chat, summary,
                   personas, interactions>>

\* set_persona, as select_persona and the TUI call it: with a valid persona.
SetPersona(persona, ok) ==
    /\ Op
    /\ current_persona' = persona
    /\ settings' = SetSetting(settings, "current_persona", DumpsName(persona.name), ok)
    /\ Errors(Failure(~ok))
    /\ UNCHANGED <<memories, session_id, backend, deep_mode, clarity_mode,
                   journey_memory_enabled, ultra_privacy_mode, chat, summary, set_flags,
                   personas, logging_enabled, interactions>>

\* POST /api/settings/ultra-privacy
ToggleUltraPrivacy(enabled, ok) ==
    /\ Op
    /\ ultra_privacy_mode' = enabled
    /\ settings' = SetSetting(settings, "ultra_privacy_mode", DumpsBool(enabled), ok)
    /\ Errors(Failure(~ok))
    /\ UNCHANGED <<memories, session_id, backend, current_persona, deep_mode, clarity_mode,
                   journey_memory_enabled, chat, summary, set_flags,
                   personas, logging_enabled, interactions>>

\* POST /api/settings/journey-memory
ToggleJourneyMemory(enabled, ok) ==
    /\ Op
    /\ journey_memory_enabled' = enabled
    /\ settings' = SetSetting(settings, "journey_memory_enabled", DumpsBool(enabled), ok)
    /\ Errors(Failure(~ok))
    /\ UNCHANGED <<memories, session_id, backend, current_persona, deep_mode, clarity_mode,
                   ultra_privacy_mode, chat, summary, set_flags,
                   personas, logging_enabled, interactions>>

\* POST /api/settings/default-persona: writes the store only.
SetDefaultPersona(persona_name, ok) ==
    /\ Op
    /\ settings' = SetSetting(settings, "current_persona", DumpsName(persona_name), ok)
    /\ Errors(Failure(~ok))
    /\ UNCHANGED <<memories, session_id, backend, current_persona, deep_mode, clarity_mode,
                   journey_memory_enabled, ultra_privacy_mode, chat, summary, set_flags,
                   personas, logging_enabled, interactions>>

\* The preambles the configuration endpoint is given.
Preambles == {"Answer in verse."}

\* POST /api/personas/{persona_name}/config, for a persona find_persona finds.
UpdatePersonaConfig(persona, preamble, ok) ==
    /\ Op
    /\ settings' = SetSetting(settings, PreambleKey(persona.name), preamble, ok)
    /\ Errors(Failure(~ok))
    /\ UNCHANGED <<memories, session_id, backend, current_persona, deep_mode, clarity_mode,
                   journey_memory_enabled, ultra_privacy_mode, chat, summary, set_flags,
                   personas, logging_enabled, interactions>>

\* A new PhilosopherCore is constructed against the same database.
NewSession(failed) ==
    /\ Op
    /\ chat.pc # "running"
    /\ Construct(settings, failed)
    /\ session_id' \in SessionIds \ {session_id}
    /\ chat' = IdleChat
    /\ summary' = NoSummary
    /\ set_flags' = {}
    /\ Errors(Cardinality(failed \ (IF ultra_privacy_mode' THEN {"current_persona"} ELSE {})))
    /\ UNCHANGED <<settings, memories, backend, personas, interactions>>

\* --------------------------------------------------------- session: summary

\* The methods LLMBackend and its implementations define (backends.py).
BackendMethods == {"generate", "is_available", "name"}

\* The method summarize_and_store_session calls on the backend (line 111).
SummaryMethod == "generate_response"

\* The two early returns (lines 93-94).
SummaryGuard == ultra_privacy_mode \/ ~journey_memory_enabled

\* db.get_history(limit=20): the newest rows, or [] when the read raised.
GetHistory(limit, ok) ==
    IF ~ok THEN <<>>
    ELSE IF Len(interactions) <= limit THEN interactions
    ELSE SubSeq(interactions, Len(interactions) - limit + 1, Len(interactions))

\* The call reaches the backend and gets a summary: past the guards, with
\* history, and the method exists on the backend object (else AttributeError,
\* caught at line 114).
SummaryGenerates(history_ok) ==
    /\ ~SummaryGuard
    /\ GetHistory(20, history_ok) # <<>>
    /\ backend # None
    /\ SummaryMethod \in BackendMethods

JourneyMemory ==
    [summary_text |-> <<"s">>,
     persona_name |-> IF current_persona # NoPersona THEN current_persona.name ELSE "Unknown",
     session_id   |-> session_id]

\* A summarize_and_store_session that stores a summary whatever the flags.
SummarizedAlways(history_ok, ok) == Append(memories, JourneyMemory)

\* The journey_memory table after summarize_and_store_session.
Summarized(history_ok, ok) ==
    IF SummaryGenerates(history_ok) /\ ok THEN Append(memories, JourneyMemory) ELSE memories

Summarize(history_ok, ok) ==
    /\ Op
    /\ memories' = Summarized(history_ok, ok)
    /\ summary' = [n         |-> summary.n + 1,
                   fetched   |-> ~SummaryGuard,
                   rows      |-> IF SummaryGuard THEN 0 ELSE Len(GetHistory(20, history_ok)),
                   generated |-> SummaryGenerates(history_ok),
                   store_ok  |-> ok]
    /\ Errors(Failure(~SummaryGuard /\ ~history_ok) + Failure(SummaryGenerates(history_ok) /\ ~ok))
    /\ UNCHANGED <<settings, session_id, backend, current_persona, deep_mode, clarity_mode,
                   journey_memory_enabled, ultra_privacy_mode, chat, set_flags,
                   personas, logging_enabled, interactions>>

SessNext ==
    \/ \E user_query \in Queries, preamble_ok \in BOOLEAN : ChatBegin(user_query, preamble_ok)
    \/ \E token \in Tokens : ChatToken(token)
    \/ \E ok \in BOOLEAN : ChatFinish(ok)
    \/ ChatRaise
    \/ ChatAbandon
    \/ \E enabled \in BOOLEAN, ok \in BOOLEAN :
          \/ SetDeepMode(enabled, ok)
          \/ SetClarityMode(enabled, ok)
          \/ SetLogging(enabled, ok)
          \/ ToggleUltraPrivacy(enabled, ok)
          \/ ToggleJourneyMemory(enabled, ok)
    \/ \E k \in 1..Len(GetValidPersonas(personas)), ok \in BOOLEAN :
          SetPersona(GetValidPersonas(personas)[k], ok)
    \/ \E persona_name \in {"Kant"}, ok \in BOOLEAN : SetDefaultPersona(persona_name, ok)
    \/ \E persona \in {ValidPersonas[3]}, preamble \in Preambles, ok \in BOOLEAN :
          UpdatePersonaConfig(persona, preamble, ok)
    \/ \E failed \in SUBSET SettingKeys : NewSession(failed)
    \/ \E history_ok \in BOOLEAN, ok \in BOOLEAN : Summarize(history_ok, ok)

\* ------------------------------------------------------------ persona scan

\* ScanStatus.__init__ (start_time, end_time and output are left out).
IdleScan == [is_running |-> FALSE, success |-> FALSE, error |-> None,
             mode |-> "shallow", persona_count |-> 0]

ScanInit ==
    /\ scan_state = IdleScan
    /\ scan_tasks = 0
    /\ scan_requests = 0
    /\ scan_reply = None

\* The replies of scan_personas (lines 368 and 384-387).
ScanRejected == "Scan already in progress"

ScanStarted == "scan started in background"

\* How the subprocess of run_scan_task ends: exit status 0, another exit
\* status (subprocess.run is called without check), or TimeoutExpired.
ScanOutcomes == {"ok", "failed", "timeout"}

\* scan_personas: the test of is_running, then lines 374-379 under the lock and
\* the creation of the background task.  An uncontended asyncio lock is taken
\* without giving the event loop back, so the handler runs in one piece.
ScanPersonas(deep) ==
    /\ scan_requests < MaxScans
    /\ scan_requests' = scan_requests + 1
    /\ IF scan_state.is_running
       THEN /\ scan_reply' = ScanRejected
            /\ UNCHANGED <<scan_state, scan_tasks>>
       ELSE /\ scan_state' = [scan_state EXCEPT !.is_running = TRUE,
                                                !.mode = IF deep THEN "deep" ELSE "shallow",
                                                !.success = FALSE,
                                                !.error = None]
            /\ scan_tasks' = scan_tasks + 1
            /\ scan_reply' = ScanStarted
    /\ UNCHANGED <<personas, logging_enabled, interactions, db_errors>>

\* A run_scan_task whose handler for a failed scan forgets the flag.
FinishedScanStaysRunning(outcome, count) ==
    IF outcome = "timeout"
    THEN [scan_state EXCEPT !.success = FALSE, !.error = "timeout"]
    ELSE [scan_state EXCEPT !.is_running = FALSE, !.success = TRUE,
                            !.persona_count = count]

\* scan_state as run_scan_task leaves it: lines 421-426 when subprocess.run
\* returned, lines 430-434 when it raised.
FinishedScan(outcome, count) ==
    IF outcome = "timeout"
    THEN [scan_state EXCEPT !.is_running = FALSE, !.success = FALSE, !.error = "timeout"]
    ELSE [scan_state EXCEPT !.is_running = FALSE, !.success = TRUE,
                            !.persona_count = count]

\* run_scan_task from the end of the subprocess on: core.refresh_data()
\* reloads the personas when subprocess.run returned, then the state is
\* written.
RunScanTask(outcome) ==
    /\ scan_tasks > 0
    /\ scan_tasks' = scan_tasks - 1
    /\ IF outcome = "timeout" THEN personas' = personas ELSE personas' \in Libraries
    /\ scan_state' = FinishedScan(outcome, Len(GetValidPersonas(personas')))
    /\ UNCHANGED <<scan_requests, scan_reply, logging_enabled, interactions, db_errors>>

ScanNext ==
    \/ \E deep \in BOOLEAN : ScanPersonas(deep)
    \/ \E outcome \in ScanOutcomes : RunScanTask(outcome)

\* ---------------------------------------------------------- specifications

Init == SymInit /\ CoreInit /\ SchedInit /\ personas = Library
        /\ SessFixed /\ ultra_privacy_mode \in BOOLEAN /\ RagFixed /\ ScanInit

\* The history budget seen from the caller: once MaxHistory entries exist no
\* further next_turn() is begun.
HistoryBudget == ~(Len(history) >= MaxHistory /\ gen.pc = "idle" /\ gen'.pc = "running")

\* A debate, driven by one caller at a time.
Next == SymNext /\ HistoryBudget /\ UNCHANGED <<suspended, schedVars, sessVars, ragVars, envVars, scanVars>>

Spec == Init /\ [][Next]_vars

\* A debate without logging in which next_turn() is begun on a full history
\* too: the speaker is chosen and fragments are streamed, nothing is appended.
DebateInit == Init /\ ~logging_enabled /\ ~ultra_privacy_mode

DebateNext == SymNext /\ UNCHANGED <<suspended, schedVars, sessVars, ragVars, envVars, scanVars>>

SpecDebate == DebateInit /\ [][DebateNext]_vars

\* A debate served over the web API: the requests of its clients interleave at
\* the yields of the streams, two streams at most being open at a time.
RequestsInit == Init /\ ~ultra_privacy_mode /\ persona_b = ValidPersonas[2]

\* The backend of this deployment answers every prompt with the same two
\* fragments (and may still raise after any of them).
RequestsStream == <<"x", "y">>

\* The handlers answer 400 once the debate is stopped (lines 705-709 and
\* 779-783); a stream that is already open is resumed without a test.
RequestsNext ==
    /\ \/ /\ is_active
          /\ \/ \E message \in Messages, target \in Targets : Interject(message, target)
             \/ NextTurnBegin
             \/ StopSymposium
          /\ UNCHANGED suspended
       \/ /\ \/ NextTurnResume
             \/ NextTurnFinish
             \/ NextTurnAbandon
          /\ UNCHANGED suspended
       \/ Switch
    /\ IsPrefix(gen'.full_response, RequestsStream)
    /\ gen'.pc = "completed" => gen'.full_response = RequestsStream
    /\ UNCHANGED <<schedVars, sessVars, ragVars, envVars, scanVars>>

SpecRequests == RequestsInit /\ [][RequestsNext]_vars

\* The scheduler, its foreground caller and its background threads.
SchedulerInit == SchedInit /\ CoreInit /\ SymInit /\ persona_b = ValidPersonas[2]
                 /\ SessFixed /\ ultra_privacy_mode = FALSE /\ RagFixed /\ ScanInit

SchedulerNext == SchedNext /\ UNCHANGED <<symVars, sessVars, ragVars, envVars, scanVars>>

SpecScheduler == SchedulerInit /\ [][SchedulerNext]_vars

\* One settings store and the sessions constructed against it, one at a time.
SessionInit == SessInit /\ SymInit /\ SchedInit /\ persona_b = ValidPersonas[2]
               /\ knowledge_base = <<>> /\ search = IdleSearch /\ ScanInit

SessionNext == SessNext /\ UNCHANGED <<symVars, schedVars, ragVars, envVars, scanVars>>

SpecSession == SessionInit /\ [][SessionNext]_vars

\* No debate has been started on the Symposium.
SymUntouched == history = <<>> /\ gen = IdleGen

\* The three users of the store, each run on its own against a store whose
\* calls may fail: a debate and a scheduler with logging enabled, a session.
StoreInit ==
    \/ Init /\ logging_enabled /\ ~ultra_privacy_mode
    \/ SchedulerInit /\ logging_enabled /\ personas = Library
    \/ SessionInit

StoreNext ==
    \/ SessFixed /\ logging_enabled /\ calls = 0 /\ SymNext /\ HistoryBudget /\ UNCHANGED <<suspended, schedVars, sessVars, ragVars, envVars, scanVars>>
    \/ /\ SessFixed /\ logging_enabled /\ SymUntouched /\ persona_b = ValidPersonas[2]
       /\ SchedNext /\ UNCHANGED <<symVars, sessVars, ragVars, envVars, scanVars>>
    \/ /\ calls = 0 /\ SymUntouched
       /\ ops = 0 => logging_enabled = GetBoolSetting(settings, "logging_enabled", FALSE, {})
       /\ SessNext /\ UNCHANGED <<symVars, schedVars, ragVars, envVars, scanVars>>

SpecStore == StoreInit /\ [][StoreNext]_vars

\* Searches over every small knowledge base.
SearchInit ==
    /\ knowledge_base \in KnowledgeBases(MaxDocs)
    /\ search = IdleSearch
    /\ environ = EmptyEnv
    /\ SymInit /\ persona_b = ValidPersonas[2]
    /\ CoreInit /\ logging_enabled = FALSE /\ personas = Library
    /\ SchedInit
    /\ SessFixed /\ ultra_privacy_mode = FALSE
    /\ ScanInit

SearchNext ==
    /\ \E query \in SearchQueries, library_filter \in LibraryFilters :
          Search(query, library_filter)
    /\ UNCHANGED <<symVars, coreVars, schedVars, sessVars, envVars, scanVars>>

SpecSearch == SearchInit /\ [][SearchNext]_vars

\* The persona scan of the web API.  The event loop runs every task it has
\* created and the subprocess is given 300 seconds at most, so a scan task
\* that exists does end.
ScanOnlyInit == SchedulerInit /\ ~logging_enabled

ScanOnlyNext == ScanNext /\ UNCHANGED <<symVars, schedVars, sessVars, ragVars, envVars>>

SpecScan == ScanOnlyInit /\ [][ScanOnlyNext]_vars
            /\ WF_scanVars(\E outcome \in ScanOutcomes : RunScanTask(outcome))

\* ------------------------------------------------ symposium: properties

IsInterjection(e) == e.type = "interjection"

IsTargeted(e) == IsInterjection(e) /\ e.target \in {"a", "b"}

\* history[i] is a turn that next_turn generated.
Generated(i) == i \in 1..Len(history) /\ ~IsInterjection(history[i])

\* The index of the last generated turn before history[i]; 0 when there is none.
PrevGenerated(i) ==
    LET before == {j \in 1..(i - 1) : Generated(j)}
    IN  IF before = {} THEN 0 ELSE CHOOSE k \in before : \A j \in before : j <= k

RECURSIVE ConcatContents(_)
\* The contents of a sequence of events, concatenated in order.
ConcatContents(evs) ==
    IF evs = <<>> THEN <<>> ELSE Head(evs).content \o ConcatContents(Tail(evs))

\* C1: a generated turn that directly follows an interjection with target
\* 'a' or 'b' is spoken by the targeted participant, whoever spoke the last
\* generated turn; the stream in progress already names that participant.
C1_TargetPinsNextTurn ==
    /\ \A i \in 1..(Len(history) - 1) :
          IsTargeted(history[i]) /\ Generated(i + 1)
          => /\ spoke[i + 1] = history[i].target
             /\ history[i + 1].speaker = PersonaOf(history[i].target).name
    /\ gen.pc # "idle" /\ IsTargeted(gen.last_turn)
          => /\ gen.side = gen.last_turn.target
             /\ gen.speaker = PersonaOf(gen.last_turn.target)

\* B spoke, the moderator interjected at B, and B spoke again (against parity).
C1_Witness ==
    \E i \in 2..(Len(history) - 1) :
        /\ persona_a.name # persona_b.name
        /\ Generated(i - 1) /\ spoke[i - 1] = "b"
        /\ IsTargeted(history[i]) /\ history[i].target = "b"
        /\ Generated(i + 1) /\ spoke[i + 1] = "b"

\* C2: the first generated turn of a debate whose history so far holds only
\* interjections without an 'a'/'b' target (or nothing) is spoken by A.
C2_FirstTurnIsA ==
    /\ \A i \in 1..Len(history) :
          (Generated(i) /\ \A j \in 1..(i - 1) : IsInterjection(history[j]) /\ ~IsTargeted(history[j]))
          => spoke[i] = "a" /\ history[i].speaker = persona_a.name
    /\ (gen.pc = "running" /\ \A j \in 1..Len(history) : IsInterjection(history[j]) /\ ~IsTargeted(history[j]))
          => gen.side = "a" /\ gen.speaker = persona_a

\* Two untargeted interjections (an absent and an unknown target), then A opens.
C2_Witness ==
    /\ Len(history) >= 3
    /\ IsInterjection(history[1]) /\ IsInterjection(history[2])
    /\ {history[1].target, history[2].target} = {None, "c"}
    /\ Generated(3) /\ spoke[3] = "a"

\* C3: a generated turn that does not directly follow a targeted interjection
\* is spoken by the participant other than the one who spoke the previous
\* generated turn.
C3_Alternates ==
    \A i \in 1..Len(history) :
        (/\ Generated(i)
         /\ (i = 1 \/ ~IsTargeted(history[i - 1]))
         /\ PrevGenerated(i) # 0)
        => spoke[i] # spoke[PrevGenerated(i)]

\* C4: after a targeted interjection and two generated turns, the second of
\* the two is spoken by the participant other than the speaker of the first.
C4_TargetPinsOnlyOneTurn ==
    \A i \in 1..(Len(history) - 2) :
        (IsTargeted(history[i]) /\ Generated(i + 1) /\ Generated(i + 2))
        => spoke[i + 2] # spoke[i + 1]

\* C5: on a debate whose active flag is false no step appends to history,
\* changes turn_count or starts a generation.
C5_InactiveRejects ==
    [][~is_active => (history' = history /\ turn_count' = turn_count /\ gen'.pc = "idle")]_vars

\* C6: turn_count is the number of history entries and the i-th entry
\* carries turn index i.
C6_TurnIndices ==
    /\ turn_count = Len(history)
    /\ \A i \in 1..Len(history) : history[i].turn = i

\* Three completed operations, of both kinds.
C6_Witness ==
    /\ gen.pc = "idle"
    /\ Len(history) >= 3
    /\ \E i, j \in 1..Len(history) : Generated(i) /\ IsInterjection(history[j])

\* C7: a stream in progress has yielded token events only, all naming the
\* chosen speaker; a stream that ended normally is tokens followed by one
\* complete event, whose text is the tokens' contents concatenated in order.
C7_StreamShape ==
    /\ gen.pc = "running"
          => \A k \in 1..Len(gen.events) :
                gen.events[k].type = "token" /\ gen.events[k].speaker = gen.speaker.name
    /\ gen.pc = "completed"
          => LET n == Len(gen.events)
             IN  /\ n >= 1
                 /\ gen.events[n].type = "complete"
                 /\ \A k \in 1..(n - 1) :
                       /\ gen.events[k].type = "token"
                       /\ gen.events[k].speaker = gen.events[1].speaker
                 /\ gen.events[n].data.text = ConcatContents(SubSeq(gen.events, 1, n - 1))
                 /\ gen.events[n].data = history[Len(history)]

\* A stream of two different fragments that ended normally.
C7_Witness ==
    /\ gen.pc = "completed"
    /\ Len(gen.events) = 3
    /\ gen.events[1].content # gen.events[2].content

\* ------------------------------------------------ scheduler: properties

\* In this step thread th enters execute_task for a task: the execution begins.
BeginsExecution(th) ==
    /\ th <= Len(threads')
    /\ threads[th].pc # "exec"
    /\ threads'[th].pc = "exec"

\* The step is a call of start() / of stop() by the foreground caller.
StartCall == calls' = calls + 1 /\ now' = now /\ fg'.op = "start"

StopCall == calls' = calls + 1 /\ now' = now /\ fg'.op = "stop"

\* C8: once remove_task(id) has returned, the task list does not hold that id
\* and no execution of that task begins afterwards.
C8_RemovedNeverFires ==
    [][ /\ \A id \in removed' : \A k \in 1..Len(tasks') : tasks'[k].id # id
        /\ \A th \in 1..Len(threads) :
              BeginsExecution(th) => threads'[th].cur.id \notin removed ]_vars

\* C9: after stop() has returned and until start() is called again, no task
\* execution begins.
C9_NoExecutionAfterStop ==
    [][ stop_returned => \A th \in 1..Len(threads) : ~BeginsExecution(th) ]_vars

\* C10: start() while running creates no thread and changes no state; stop()
\* while stopped changes no state; start() while stopped sets running, makes
\* one new loop thread the current one and leaves tasks and jobs unchanged.
C10_StartStopIdempotent ==
    [][ /\ (StartCall /\ running)
              => UNCHANGED <<running, thread, threads, tasks, jobs, next_id,
                             ui_calls, personas, logging_enabled, interactions, db_errors>>
        /\ (StopCall /\ ~running)
              => UNCHANGED <<running, thread, threads, tasks, jobs, next_id,
                             ui_calls, personas, logging_enabled, interactions, db_errors>>
        /\ (StartCall /\ ~running)
              => /\ running'
                 /\ threads' = Append(threads, NewThread)
                 /\ thread' = Len(threads')
                 /\ UNCHANGED <<tasks, jobs>> ]_vars

\* start() was called while running, after a stop() and a restart (the second
\* thread exists), with a task in the list.
C10_Witness ==
    /\ fg.op = "start"
    /\ fg.was_running
    /\ Len(threads) = 2
    /\ tasks # <<>>

\* C11: no exception raised inside execute_task leaves it: no loop thread is
\* ever ended by one, so the loop keeps polling.
C11_ExceptionsStayInTask ==
    \A th \in 1..Len(threads) : threads[th].pc # "crashed"

\* C12: when persona resolution finds nothing the step makes no generation
\* call, no delivery call and persists nothing; and the persona a generation
\* call is made for is an entry of core.personas whose key is no placeholder
\* and whose name is not blank.
C12_NoPersonaNoOp ==
    [][ \A th \in 1..Len(threads) :
          /\ ( /\ threads[th].pc = "pass"
               /\ threads'[th] # threads[th]
               /\ ResolvePersona(Head(threads[th].pending).task) = {} )
                => /\ threads'[th].pc \in {"pass", "sleep"}
                   /\ ui_calls' = ui_calls
                   /\ interactions' = interactions
          /\ ( threads[th].pc # "exec" /\ threads'[th].pc = "exec" )
                => \E k \in 1..Len(personas) :
                      /\ personas[k].persona = threads'[th].persona
                      /\ Lower(personas[k].key) \notin PlaceholderKeys
                      /\ Strip(personas[k].persona.name) # "" ]_vars

\* Two jobs have run without any delivery: one for a name no persona carries,
\* and one for "Random" with no persona loaded.
C12_Witness ==
    /\ personas = <<>>
    /\ ui_calls = 0
    /\ \E j, k \in 1..Len(jobs) :
          /\ jobs[j].task.persona_name = "Nobody" /\ jobs[j].last_run >= 0
          /\ jobs[k].task.persona_name = "Random" /\ jobs[k].last_run >= 0

\* -------------------------------------------------- session: properties

\* The step is a call of chat() / the end of its backend stream.
ChatCall == chat'.n = chat.n + 1

StreamEnds == chat.pc = "running" /\ chat'.pc \in {"completed", "failed"}

\* C13: in privacy mode a chat() drained to the end leaves get_history() as
\* long as it was.
C13_PrivateChatKeepsHistory ==
    [][ (chat.private /\ PrivacyMode /\ StreamEnds)
          => Len(GetHistory(50, TRUE))' = Len(GetHistory(50, TRUE)) ]_vars

\* C14: with privacy off, a chat() whose backend stream fails after some
\* fragments persists one record: the fragments yielded so far, under the
\* session's id.
C14_FailedStreamIsPersisted ==
    [][ ( /\ ~chat.private /\ ~PrivacyMode
          /\ chat.pc = "running" /\ chat.yielded # <<>> /\ chat'.pc = "failed" )
          => /\ Len(interactions') = Len(interactions) + 1
             /\ interactions'[Len(interactions')].ai_response = chat.yielded
             /\ interactions'[Len(interactions')].session_id = session_id ]_vars

\* C15: chat() with no persona selected yields the error fragment and ends: no
\* retrieval, no generation call, no record, and no persona is picked.
C15_NoPersonaNoChat ==
    [][ (ChatCall /\ current_persona = NoPersona)
          => /\ chat'.pc = "completed"
             /\ chat'.yielded = <<ErrorFragment>>
             /\ ~chat'.searched
             /\ chat'.full_response = <<>>
             /\ interactions' = interactions
             /\ current_persona' = NoPersona ]_vars

\* A chat() was refused for want of a persona, with a backend at hand and
\* logging enabled.
C15_Witness ==
    /\ chat.n = 1
    /\ chat.pc = "completed"
    /\ chat.yielded = <<ErrorFragment>>
    /\ current_persona = NoPersona
    /\ backend # None
    /\ logging_enabled

\* The in-memory value of a boolean setting of the session.
FlagValue(flag) ==
    CASE flag = "deep_mode" -> deep_mode
      [] flag = "clarity_mode" -> clarity_mode
      [] flag = "logging_enabled" -> logging_enabled
      [] flag = "journey_memory_enabled" -> journey_memory_enabled
      [] flag = "ultra_privacy_mode" -> ultra_privacy_mode

\* The default __init__ passes to get_setting for it.
FlagDefault(flag) == flag = "journey_memory_enabled"

\* The text set_setting stores for the in-memory value of `key`.
MemoryText(key) ==
    IF key = "current_persona"
    THEN DumpsName(IF current_persona = NoPersona THEN None ELSE current_persona.name)
    ELSE DumpsBool(FlagValue(key))

\* What a session constructed now, its reads succeeding, loads for a flag.
Reloaded(flag) == GetBoolSetting(settings, flag, FlagDefault(flag), {})

\* C16: once set_deep_mode, set_clarity_mode or set_logging has returned with
\* value v, a session constructed against the same store loads v for that flag.
C16_SetFlagReloads == \A flag \in set_flags : Reloaded(flag) = FlagValue(flag)

\* C17: after every write to the settings store, the in-memory session value
\* of the written key is the value that was written.
C17_MemoryIsLatestWrite ==
    [][ \A key \in SettingKeys :
           settings'[key] # settings[key] => MemoryText(key)' = settings'[key] ]_vars

SummarizeCall == summary'.n = summary.n + 1

\* C18: summarize_and_store_session with privacy mode on or journey memory
\* disabled makes no generation call and leaves the stored memories unchanged;
\* behind either of its two guards it does not even read the history.
C18_SummarizeNoOp ==
    [][ (SummarizeCall /\ (PrivacyMode \/ ~journey_memory_enabled))
          => /\ memories' = memories
             /\ ~summary'.generated
             /\ (ultra_privacy_mode \/ ~journey_memory_enabled) => ~summary'.fetched ]_vars

C18_Witness ==
    /\ summary.n = 1 /\ ~summary.fetched
    /\ ultra_privacy_mode /\ journey_memory_enabled /\ logging_enabled
    /\ backend # None /\ memories = <<SavedMemory>>

\* C19: with privacy off, journey memory enabled, history rows read, a backend
\* and a store that takes the write, summarize_and_store_session obtains a
\* summary through the backend's generate interface and adds exactly one
\* journey memory with the current persona name and the session id.
C19_SummarizeStoresOne ==
    [][ ( /\ SummarizeCall /\ ~PrivacyMode /\ journey_memory_enabled
          /\ backend # None /\ summary'.rows > 0 /\ summary'.store_ok )
          => /\ SummaryMethod = "generate"
             /\ summary'.generated
             /\ memories' = Append(memories, JourneyMemory) ]_vars

\* next_turn() reaches its "complete" event in this step.
TurnCompletes == gen.pc # "completed" /\ gen'.pc = "completed"

\* C20: a completed next_turn() persists its turn as one interaction record
\* with the owning session's id exactly when the session's privacy mode is off.
C20_TurnPersistedIffNotPrivate ==
    [][ TurnCompletes
          => IF PrivacyMode
             THEN interactions' = interactions
             ELSE /\ Len(interactions') = Len(interactions) + 1
                  /\ SubSeq(interactions', 1, Len(interactions)) = interactions
                  /\ interactions'[Len(interactions')].session_id = session_id
                  /\ interactions'[Len(interactions')].ai_response
                        = history'[Len(history')].text ]_vars

\* A new PhilosopherCore has been constructed in this step.
Constructed == session_id' # session_id

\* C21: while ultra_privacy_mode is true no interaction record is written,
\* whatever logging_enabled is, and a session constructed with it true does
\* not restore the saved persona.
C21_UltraPrivacyWritesNothing ==
    [][ /\ ultra_privacy_mode => interactions' = interactions
        /\ (Constructed /\ ultra_privacy_mode') => current_persona' = NoPersona ]_vars

\* C22: a store call that fails never aborts the operation in progress: the
\* step on which DatabaseManager logs an error still completes the debate
\* turn (appended, counted, "complete" emitted), still has delivered the
\* scheduled message and returned the thread to its loop, and still ends the
\* chat normally with every backend fragment yielded.
C22_StoreFailureNeverAborts ==
    [][ db_errors' # db_errors
          => /\ gen' # gen
                   => /\ TurnCompletes
                      /\ Len(history') = Len(history) + 1
                      /\ turn_count' = turn_count + 1
                      /\ gen'.events[Len(gen'.events)] = CompleteEvent(history'[Len(history')])
             /\ threads' # threads
                   => /\ ui_calls' = ui_calls + 1
                      /\ \A th \in 1..Len(threads) :
                            threads'[th] # threads[th]
                               => threads[th].pc = "exec" /\ threads'[th].pc \in {"sleep", "pass"}
             /\ (chat.pc = "running" /\ chat' # chat)
                   => /\ chat'.pc = "completed"
                      /\ chat'.yielded = chat.full_response
                      /\ chat'.yielded \in BackendStreams ]_vars

C22_Witness ==
    /\ db_errors = 1 /\ ops = 1 /\ logging_enabled /\ interactions = <<>>
    /\ chat.pc = "completed" /\ chat.searched /\ chat.yielded # <<>>

\* --------------------------------------------------- retrieval: properties

\* The whitespace-delimited words of the last search's query.
SearchWords == LET words == Split(search.query) IN {words[k] : k \in 1..Len(words)}

\* C23, as claimed: a query with no word longer than 4 characters finds nothing.
C23_ShortWordsFindNothing ==
    (search.pc = "done" /\ \A word \in SearchWords : Len(word) <= 4)
        => search.results = <<>>

\* C23, amended: a query with no word longer than 3 characters finds nothing,
\* whatever the documents and the library filter are.
C23_ThreeLetterWordsFindNothing ==
    (search.pc = "done" /\ \A word \in SearchWords : Len(word) <= 3)
        => search.results = <<>>

C23_Witness ==
    /\ search.pc = "done" /\ search.query = "the and" /\ search.library_filter = <<>>
    /\ \E k \in 1..Len(knowledge_base) : Contains("and", LowerText(knowledge_base[k].content))
    /\ search.results = <<>>

\* The distinct lowercased query words that count, of those in `content`.
WordsFound(content) ==
    {word \in {LowerText(w) : w \in SearchWords} :
        Len(word) > 3 /\ Contains(word, LowerText(content))}

\* The documents of the knowledge base with this filename.
DocsNamed(source) ==
    {k \in 1..Len(knowledge_base) : knowledge_base[k].filename = source}

\* C24: a search returns at most RagLimit results; each has a score >= 1 equal
\* to the number of distinct query words in its document's lowercased content;
\* scores do not increase along the list; results of equal score are in the
\* order of their documents in the knowledge base.
C24_ResultsRanked ==
    search.pc = "done" =>
        LET results == search.results
        IN  /\ Len(results) <= RagLimit
            /\ \A i \in 1..Len(results) :
                  /\ results[i].score >= 1
                  /\ \E k \in DocsNamed(results[i].source) :
                        results[i].score = Cardinality(WordsFound(knowledge_base[k].content))
            /\ \A i \in 1..(Len(results) - 1) : results[i].score >= results[i + 1].score
            /\ \E at \in [1..Len(results) -> 1..Len(knowledge_base)] :
                  /\ \A i \in 1..Len(results) : at[i] \in DocsNamed(results[i].source)
                  /\ \A i, j \in 1..Len(results) :
                        (i < j /\ results[i].score = results[j].score) => at[i] < at[j]

C24_Witness ==
    /\ search.pc = "done" /\ Len(knowledge_base) = 4 /\ Len(search.results) = RagLimit
    /\ search.results[1].score = 3
    /\ search.results[2].score = 2 /\ search.results[3].score = 2
    /\ search.results[2].source # search.results[3].source

\* C25: with a non-empty library filter every result comes from a file whose
\* name contains, case-insensitively, one of the filter tokens; with an empty
\* filter every document is eligible: when the list is not full, every
\* document holding a query word is in it.
C25_FilterRestricts ==
    search.pc = "done" =>
        LET results == search.results
            filter == search.library_filter
        IN  /\ filter # <<>> =>
                  \A i \in 1..Len(results) : \E k \in 1..Len(filter) :
                      Contains(LowerText(filter[k]), LowerText(results[i].source))
            /\ (filter = <<>> /\ Len(results) < RagLimit) =>
                  \A k \in 1..Len(knowledge_base) :
                      WordsFound(knowledge_base[k].content) # {}
                          => \E i \in 1..Len(results) :
                                results[i].source = knowledge_base[k].filename

C25_Witness ==
    /\ search.pc = "done" /\ search.library_filter = <<"plato_">>
    /\ \E k \in 1..Len(knowledge_base) :
          /\ knowledge_base[k].filename = "nietzsche_b.txt"
          /\ WordsFound(knowledge_base[k].content) # {}
    /\ Len(search.results) = 2
    /\ search.results[1].source = "plato_a.txt" /\ search.results[2].source = "Plato_c.txt"

\* ------------------------------------------------------ prompt: properties

\* The prompt has `part` among its parts.
HasPart(prompt, part) == \E k \in 1..Len(prompt) : prompt[k] = part

\* chat() has built a prompt and called the backend in this step.
PromptBuilt == ChatCall /\ chat'.pc = "running"

\* C26: the prompt of a chat holds the thorough-response instruction and not
\* the concise one exactly when deep_mode is true, and the concise one and not
\* the thorough one exactly when it is false, whatever the process
\* environment; it holds the clarity instruction exactly when clarity_mode is
\* true.
C26_LengthInstructionFollowsDeepMode ==
    [][ PromptBuilt
          => /\ HasPart(chat'.prompt, LengthThorough) <=> deep_mode
             /\ HasPart(chat'.prompt, LengthConcise) <=> ~deep_mode
             /\ HasPart(chat'.prompt, ClarityInstruction) <=> clarity_mode ]_vars

\* The preamble the store holds for the current persona, "" when none.
StoredPreamble ==
    IF current_persona = NoPersona THEN ""
    ELSE GetTextSetting(settings, PreambleKey(current_persona.name), "", {})

\* part p comes before part q in the prompt.
Precedes(prompt, p, q) ==
    \E i, j \in 1..Len(prompt) : i < j /\ prompt[i] = p /\ prompt[j] = q

\* C27: the prompt chat() sends holds the prior-session journey-memory block
\* exactly when journey memory is enabled, privacy mode is off and the store
\* holds a memory; when a preamble is stored for the persona, the prompt holds
\* it before the persona's system prompt.
C27_PromptCarriesMemoryAndPreamble ==
    [][ PromptBuilt
          => /\ HasPart(chat'.prompt, MemoryHeader)
                   <=> (journey_memory_enabled /\ ~PrivacyMode /\ memories # <<>>)
             /\ StoredPreamble # ""
                   => Precedes(chat'.prompt, StoredPreamble, current_persona.prompt) ]_vars

\* ---------------------------------------------------------------------------
\* symposium: interjections
\* ---------------------------------------------------------------------------

\* The other participant.
OtherSide(side) == IF side = "a" THEN "b" ELSE "a"

\* Normal alternation for the turn at history[i]: A opens, afterwards the
\* participant other than the speaker of the previous generated turn.
AlternationSide(i) ==
    IF PrevGenerated(i) = 0 THEN "a" ELSE OtherSide(spoke[PrevGenerated(i)])

\* history[i - 1] is the last of two or more consecutive interjections.
EndsRun(i) ==
    /\ i >= 3 /\ i - 1 <= Len(history)
    /\ IsInterjection(history[i - 1]) /\ IsInterjection(history[i - 2])

\* C28: after a run of consecutive interjections only the last one decides the
\* speaker of the next generated turn: its target when that is 'a' or 'b',
\* normal alternation otherwise, whatever targets the earlier interjections
\* of the run carried; the stream in progress already names that speaker.
C28_LastInterjectionDecides ==
    /\ \A i \in 1..Len(history) :
          (Generated(i) /\ EndsRun(i))
          => spoke[i] = IF IsTargeted(history[i - 1]) THEN history[i - 1].target
                        ELSE AlternationSide(i)
    /\ (gen.pc = "running" /\ EndsRun(Len(history) + 1))
          => gen.side = IF IsTargeted(gen.last_turn) THEN gen.last_turn.target
                        ELSE AlternationSide(Len(history) + 1)

\* A step in which next_turn() is begun and reaches its first yield.
TurnBegins == gen.pc = "idle" /\ gen'.pc # "idle"

\* C29: the prompt of a next_turn() is built from the last history entry at
\* the time the call starts: the opening template, quoting nothing, on an
\* empty history; the moderator template quoting the interjection's text when
\* the last entry is an interjection; the rebuttal template quoting the last
\* entry's text otherwise.
C29_TemplateFromLastEntry ==
    [][ TurnBegins
          => /\ history = <<>>
                   => gen'.prompt.template = "opening" /\ gen'.prompt.quoted = None
             /\ (history # <<>> /\ IsInterjection(history[Len(history)]))
                   => /\ gen'.prompt.template = "interjection"
                      /\ gen'.prompt.quoted = history[Len(history)].text
             /\ (history # <<>> /\ ~IsInterjection(history[Len(history)]))
                   => /\ gen'.prompt.template = "rebuttal"
                      /\ gen'.prompt.quoted = history[Len(history)].text ]_vars

\* A turn was generated, the moderator interjected, and the stream now in
\* progress answers the interjection.
C29_Witness ==
    /\ gen.pc = "running"
    /\ Len(history) >= 2
    /\ Generated(Len(history) - 1) /\ history[Len(history) - 1].text # <<>>
    /\ IsInterjection(history[Len(history)])
    /\ gen.prompt.template = "interjection"
    /\ gen.prompt.quoted = history[Len(history)].text

\* C30: interject(message, target) appends exactly one entry, an interjection
\* by the Moderator carrying the given text and target, and adds one to
\* turn_count; the earlier entries stay as they were, no generation is begun
\* or resumed and nothing is written to the store.
C30_InterjectAppendsOne ==
    [][ \A message \in Messages, target \in Targets :
          Interject(message, target)
          => /\ Len(history') = Len(history) + 1
             /\ SubSeq(history', 1, Len(history)) = history
             /\ history'[Len(history')].type = "interjection"
             /\ history'[Len(history')].speaker = "Moderator"
             /\ history'[Len(history')].text = message
             /\ history'[Len(history')].target = target
             /\ turn_count' = turn_count + 1
             /\ gen' = gen
             /\ interactions' = interactions /\ db_errors' = db_errors ]_vars

\* With logging on, a generated turn was logged and the moderator then
\* interjected at B: two entries, one row.
C30_Witness ==
    /\ logging_enabled
    /\ Len(history) = 2 /\ turn_count = 2
    /\ Generated(1)
    /\ IsInterjection(history[2]) /\ history[2].target = "b"
    /\ Len(interactions) = 1
    /\ gen.pc = "idle"

\* ---------------------------------------------------------------------------
\* scheduler: firing
\* ---------------------------------------------------------------------------

\* In this step thread th leaves execute_task: the firing of its task is over.
EndsExecution(th) ==
    /\ threads[th].pc = "exec"
    /\ threads'[th].pc # "exec"

\* C31: a task is fired only when it is enabled and its interval has elapsed
\* since its last_run, and when the firing is over the task in the list
\* carries the firing time as its last_run.
C31_FiringUpdatesLastRun ==
    [][ \A th \in 1..Len(threads) :
          /\ BeginsExecution(th)
                => /\ threads'[th].cur.enabled
                   /\ now >= threads'[th].cur.last_run + threads'[th].cur.interval_minutes
          /\ EndsExecution(th)
                => \A k \in 1..Len(tasks') :
                      tasks'[k].id = threads[th].cur.id => tasks'[k].last_run = now ]_vars

\* Loop thread th is polling: inside run_pending, or in the sleep of a loop
\* whose `while self.running` test will let it go on.
Polling(th) ==
    \/ threads[th].pc \in {"pass", "exec"}
    \/ threads[th].pc = "sleep" /\ running

\* C32: at most one loop thread of the scheduler is polling at any time.
C32_OneLoopPolls ==
    Cardinality({th \in 1..Len(threads) : Polling(th)}) <= 1

\* ---------------------------------------------------------------------------
\* symposium: requests that interleave
\* ---------------------------------------------------------------------------

\* C33: two generated turns with no interjection between them are never
\* spoken by the same participant, also when two next_turn() streams overlap.
C33_NeighboursDiffer ==
    \A i \in 1..(Len(history) - 1) :
        (Generated(i) /\ Generated(i + 1)) => spoke[i] # spoke[i + 1]

\* C34: an interjection with target 'a' or 'b' that no other interjection
\* follows is honoured: the generated turn that comes next in history is
\* spoken by the targeted participant, also when interject ran between two
\* token events of a stream.
C34_TargetHonoured ==
    \A i \in 1..(Len(history) - 1) :
        (IsTargeted(history[i]) /\ Generated(i + 1))
        => history[i + 1].speaker = PersonaOf(history[i].target).name

\* ---------------------------------------------------------------------------
\* session: calls between the fragments of a chat
\* ---------------------------------------------------------------------------

\* C35: the row a chat() persists names a persona whose prompt is the one the
\* response was generated from, and its deep_mode is the value the prompt was
\* built with (visible in the prompt's length instruction unless the process
\* environment forces the thorough one), also when set_persona or
\* set_deep_mode ran between two fragments.
C35_RowNamesWhatWasUsed ==
    [][ (StreamEnds /\ Len(interactions') = Len(interactions) + 1)
          => LET row == interactions'[Len(interactions')]
             IN  /\ \E k \in 1..Len(personas) :
                       /\ personas[k].persona.name = row.persona_name
                       /\ personas[k].persona.prompt = chat.persona_prompt
                 /\ Getenv("WHETSTONE_VERBOSE", "0") # "1"
                       => (row.meta_deep_mode <=> HasPart(chat.prompt, LengthThorough)) ]_vars

\* ---------------------------------------------------------------------------
\* symposium: streams that do not complete
\* ---------------------------------------------------------------------------

\* The stream in progress ends without its complete event: the backend raised
\* or the caller dropped the stream.
StreamBreaks == gen.pc = "running" /\ gen'.pc = "idle"

\* C36: a next_turn() whose backend stream raises, or that the caller abandons
\* before the complete event, leaves the debate as it was: history,
\* turn_count and the store are unchanged, and the next_turn() that follows
\* selects the same speaker with the same prompt template.
C36_BrokenStreamLeavesNoTrace ==
    [][ StreamBreaks
          => /\ history' = history
             /\ turn_count' = turn_count
             /\ interactions' = interactions /\ db_errors' = db_errors
             /\ SpeakerSide(history') = gen.side
             /\ PersonaOf(SpeakerSide(history')) = gen.speaker
             /\ ConstructDebatePrompt(PersonaOf(SpeakerSide(history')), OpponentOf(history'),
                                      LastTurn(history')).template = gen.prompt.template ]_vars

\* With logging on, a turn was logged, and the stream of the second turn has
\* yielded a fragment: from here the backend may raise or the caller leave.
C36_Witness ==
    /\ logging_enabled
    /\ Len(history) = 1 /\ Generated(1) /\ Len(interactions) = 1
    /\ gen.pc = "running" /\ gen.side = "b"
    /\ gen.full_response = <<"x">>
    /\ gen.prompt.template = "rebuttal"

\* C37: once stop_symposium has returned the debate is final: no step appends
\* to its history or persists an interaction for it, also when a next_turn()
\* stream was open at the moment of the stop.
C37_StoppedIsFinal ==
    [][ ~is_active => (history' = history /\ interactions' = interactions) ]_vars

\* ---------------------------------------------------------------------------
\* persona scan: properties
\* ---------------------------------------------------------------------------

\* The step is a POST /api/personas/scan request.
ScanRequest == scan_requests' = scan_requests + 1

\* C38: at most one scan task exists at a time; a request received while
\* is_running is true is rejected, starts no task and changes nothing; a
\* request received while it is false is accepted; and is_running, once true,
\* becomes false again, however the subprocess ends.
C38_OneScanAtATime ==
    /\ [](scan_tasks <= 1)
    /\ [][ ScanRequest
             => IF scan_state.is_running
                THEN scan_reply' = ScanRejected /\ UNCHANGED <<scan_state, scan_tasks>>
                ELSE scan_reply' = ScanStarted /\ scan_tasks' = scan_tasks + 1 ]_vars
    /\ (scan_state.is_running ~> ~scan_state.is_running)

\* A request was turned down while a scan ran, and that scan, whose
\* subprocess timed out, has given the flag back.
C38_Witness ==
    /\ scan_reply = ScanRejected
    /\ ~scan_state.is_running
    /\ scan_state.error = "timeout"
    /\ scan_tasks = 0

\* ---------------------------------------------------------------------------
\* scheduler: tasks and jobs
\* ---------------------------------------------------------------------------

\* The ids of the tasks in list ts.
TaskIds(ts) == {ts[k].id : k \in 1..Len(ts)}

\* The jobs in list js that are tagged id.
JobsTagged(js, id) == {j \in 1..Len(js) : js[j].task.id = id}

\* C39: after every step the task list and the registered jobs agree: each
\* task has exactly one job tagged with its id and each job is tagged with
\* the id of a task in the list; remove_task of an id the list does not hold
\* changes neither.
C39_TasksAndJobsAgree ==
    [][ /\ \A id \in TaskIds(tasks') : Cardinality(JobsTagged(jobs', id)) = 1
        /\ \A j \in 1..Len(jobs') : jobs'[j].task.id \in TaskIds(tasks')
        /\ \A task_id \in 1..(next_id - 1) :
              (RemoveTask(task_id) /\ task_id \notin TaskIds(tasks))
              => UNCHANGED <<tasks, jobs>> ]_vars

\* Two tasks were added and the first removed; the job of the second has run
\* and been rescheduled by the loop.
C39_Witness ==
    /\ removed = {1}
    /\ TaskIds(tasks) = {2}
    /\ Len(jobs) = 1 /\ jobs[1].task.id = 2 /\ jobs[1].last_run >= 0

\* ---------------------------------------------------------------------------
\* symposium: who is quoted in a rebuttal
\* ---------------------------------------------------------------------------

\* C40: when the participants' names differ and a next_turn() begun by the
\* one caller uses the rebuttal template, the last history entry, whose text
\* the prompt quotes, was spoken by the opponent of the selected speaker and
\* not by the speaker itself.
C40_RebuttalQuotesOpponent ==
    [][ (TurnBegins /\ persona_a.name # persona_b.name
           /\ gen'.prompt.template = "rebuttal")
          => /\ history # <<>>
             /\ gen'.prompt.quoted = history[Len(history)].text
             /\ spoke[Len(history)] = OtherSide(gen'.side)
             /\ history[Len(history)].speaker = gen'.opponent.name
             /\ history[Len(history)].speaker # gen'.speaker.name
             /\ gen'.prompt.opponent = history[Len(history)].speaker ]_vars

\* A opened, the moderator called on A again, A answered, and the stream in
\* progress is B's rebuttal of that answer.
C40_Witness ==
    /\ persona_a.name # persona_b.name
    /\ gen.pc = "running" /\ gen.prompt.template = "rebuttal"
    /\ Len(history) = 3
    /\ spoke = <<"a", "m", "a">>
    /\ history[2].target = "a"
    /\ gen.side = "b"
    /\ gen.prompt.quoted = history[3].text

====
